---- MODULE Spec2Model ----
(***************************************************************************)
(* Sales dashboard: column mapping (app.map_column_names), schema gate     *)
(* (app.process_data, DataLoader.validate_data, Dashboard.run), cleaning   *)
(* (DataCleaner) and aggregates (DataAnalyzer).                            *)
(*                                                                         *)
(* Text is modelled as a sequence of one-character strings, so that        *)
(* lower(), strip(), substring tests and number/date parsing are computed  *)
(* and not assumed.  A table cell is a record [k, n, s]: k is the kind     *)
(* ("num", "str", "ts", "nan", "nat"), n the number (or the timestamp as   *)
(* yyyymmdd), s the text.                                                  *)
(***************************************************************************)
EXTENDS Integers, Sequences, FiniteSets, TLC

VARIABLES
    map_pc,          \* mapper: "input" before map_column_names, "mapped" after
    df_columns,      \* mapper: list(df.columns) of the raw table
    column_mapping,  \* mapper: the dict, as a sequence of <<original, field>>
    mapped_columns,  \* mapper: list(df_mapped.columns)
    clean_pc,        \* cleaner: "input", "called" (one operation returned), "rerun"
    df,              \* cleaner: the table the caller passes in
    calls,           \* cleaner: the calls made so far, [op, strategy] each
    df_cleaned,      \* cleaner: the table the last call returned
    raised,          \* cleaner: whether the last call raised an error
    removed,         \* cleaner: removed_count of the last call that logs one
    steps,           \* cleaner: the calls the last clean_all made, in order
    an_pc,           \* analyzer: "constructed", then "returned" after a call
    an_df,           \* analyzer: self.df, the copy taken at construction
    an_call,         \* analyzer: the aggregate called last
    an_n,            \* analyzer: the n of the last get_top_products call
    an_cost_column,  \* analyzer: the cost_column of the last profit-margin call
    an_result,       \* analyzer: what it returned
    an_raised,       \* analyzer: whether it raised an error
    entry,           \* pipeline: "app" (process_data) or "cli" (Dashboard.run)
    pipe_pc,         \* pipeline: the position in process_data / Dashboard.run
    file_exists,     \* pipeline: whether the CLI's data file exists
    raw_data,        \* pipeline: the raw table [columns, rows]
    pipe_mapping,    \* pipeline: process_data's column_mapping
    df_mapped,       \* pipeline: process_data's df_mapped
    missing_columns, \* pipeline: the canonical columns the check found absent
    issues,          \* pipeline: validate_data's list of issues
    cleaned_data,    \* pipeline: what clean_all returned
    clean_calls,     \* pipeline: how many times clean_all was invoked
    outcome,         \* pipeline: "running", "ok", "error" (returned) or "raised"
    heap,            \* session: the DataFrame objects, a reference is a position
    refs,            \* session: the caller's df, the cleaner's result, self.df
    expected,        \* session: what each of these held when last handed over
                     \*          or edited by the caller
    baseline,        \* session: every aggregate's result right after construction
    sess_result,     \* session: the aggregate called last and what it returned
    edits            \* session: how many times the caller edited a table

mapVars == <<map_pc, df_columns, column_mapping, mapped_columns>>

cleanVars == <<clean_pc, df, calls, df_cleaned, raised, removed, steps>>

anVars == <<an_pc, an_df, an_call, an_n, an_cost_column, an_result, an_raised>>

pipeVars == <<entry, pipe_pc, file_exists, raw_data, pipe_mapping, df_mapped,
              missing_columns, issues, cleaned_data, clean_calls, outcome>>

sessVars == <<heap, refs, expected, baseline, sess_result, edits>>

vars == <<map_pc, df_columns, column_mapping, mapped_columns,
          clean_pc, df, calls, df_cleaned, raised, removed, steps,
          an_pc, an_df, an_call, an_n, an_cost_column, an_result, an_raised,
          entry, pipe_pc, file_exists, raw_data, pipe_mapping, df_mapped,
          missing_columns, issues, cleaned_data, clean_calls, outcome,
          heap, refs, expected, baseline, sess_result, edits>>

\* what an action of one component leaves alone
notMap == <<cleanVars, anVars, pipeVars, sessVars>>

notClean == <<mapVars, anVars, pipeVars, sessVars>>

notAn == <<mapVars, cleanVars, pipeVars, sessVars>>

notPipe == <<mapVars, cleanVars, anVars, sessVars>>

notSess == <<mapVars, cleanVars, anVars, pipeVars>>

-----------------------------------------------------------------------------
(* Text helpers                                                            *)

UpperCase == <<"A", "B", "C", "D", "E", "F", "G", "H", "I", "J", "K", "L", "M",
               "N", "O", "P", "Q", "R", "S", "T", "U", "V", "W", "X", "Y", "Z">>

LowerCase == <<"a", "b", "c", "d", "e", "f", "g", "h", "i", "j", "k", "l", "m",
               "n", "o", "p", "q", "r", "s", "t", "u", "v", "w", "x", "y", "z">>

\* str.lower() on one character
LowerChar(ch) ==
    IF \E i \in 1..Len(UpperCase) : UpperCase[i] = ch
    THEN LowerCase[CHOOSE i \in 1..Len(UpperCase) : UpperCase[i] = ch]
    ELSE ch

\* str.lower()
Lower(s) == [i \in 1..Len(s) |-> LowerChar(s[i])]

IsSpace(ch) == ch \in {" ", "\t"}

\* str.strip(): drop leading and trailing whitespace
Strip(s) ==
    LET keep == {i \in 1..Len(s) : ~IsSpace(s[i])}
    IN  IF keep = {} THEN <<>>
        ELSE LET lo == CHOOSE i \in keep : \A j \in keep : i <= j
                 hi == CHOOSE i \in keep : \A j \in keep : i >= j
             IN  SubSeq(s, lo, hi)

\* Python's  sub in s
Contains(s, sub) ==
    \E i \in 1..(Len(s) - Len(sub) + 1) : SubSeq(s, i, i + Len(sub) - 1) = sub

Range(f) == {f[i] : i \in DOMAIN f}

-----------------------------------------------------------------------------
(* Keywords of map_column_names and the canonical column names             *)

kw_date == <<"d", "a", "t", "e">>
kw_order == <<"o", "r", "d", "e", "r">>
kw_transaction == <<"t", "r", "a", "n", "s", "a", "c", "t", "i", "o", "n">>
kw_sale == <<"s", "a", "l", "e">>
kw_product == <<"p", "r", "o", "d", "u", "c", "t">>
kw_name == <<"n", "a", "m", "e">>
kw_item == <<"i", "t", "e", "m">>
kw_region == <<"r", "e", "g", "i", "o", "n">>
kw_state == <<"s", "t", "a", "t", "e">>
kw_country == <<"c", "o", "u", "n", "t", "r", "y">>
kw_sales == <<"s", "a", "l", "e", "s">>
kw_revenue == <<"r", "e", "v", "e", "n", "u", "e">>
kw_amount == <<"a", "m", "o", "u", "n", "t">>
kw_total == <<"t", "o", "t", "a", "l">>
kw_quantity == <<"q", "u", "a", "n", "t", "i", "t", "y">>
kw_qty == <<"q", "t", "y">>
kw_units == <<"u", "n", "i", "t", "s">>

\* required_columns, in the order the code lists them
required_columns == <<"date", "product", "region", "revenue", "quantity">>

\* the text of a canonical column name
CanonText(field) ==
    CASE field = "date" -> kw_date
      [] field = "product" -> kw_product
      [] field = "region" -> kw_region
      [] field = "revenue" -> kw_revenue
      [] field = "quantity" -> kw_quantity

-----------------------------------------------------------------------------
(* The column_mapping dict: insertion-ordered, keys unique                 *)

Keys(m) == {m[i][1] : i \in DOMAIN m}

\* [v for v in column_mapping.values()]
Values(m) == {m[i][2] : i \in DOMAIN m}

\* column_mapping[col]
Get(m, col) == m[CHOOSE i \in DOMAIN m : m[i][1] = col][2]

\* column_mapping[col] = field : overwrite in place, else append
Put(m, col, field) ==
    IF col \in Keys(m)
    THEN [i \in DOMAIN m |-> IF m[i][1] = col THEN <<col, field>> ELSE m[i]]
    ELSE Append(m, <<col, field>>)

\* col.lower().strip()
ColLower(col) == Strip(Lower(col))

-----------------------------------------------------------------------------
(* app.map_column_names: one loop per canonical field, each leaving at its *)
(* first  break                                                            *)

\* the date loop: for col in df_columns ... break
RECURSIVE DateLoop(_, _, _)
DateLoop(cols, i, m) ==
    IF i > Len(cols) THEN m
    ELSE LET col == cols[i]
             col_lower == ColLower(col)
         IN  IF Contains(col_lower, kw_date)
             THEN IF \/ Contains(col_lower, kw_order)
                     \/ Contains(col_lower, kw_transaction)
                     \/ Contains(col_lower, kw_sale)
                  THEN Put(m, col, "date")
                  ELSE IF Contains(col_lower, kw_date) /\ "date" \notin Values(m)
                       THEN Put(m, col, "date")
                       ELSE DateLoop(cols, i + 1, m)
             ELSE DateLoop(cols, i + 1, m)

\* the product loop
RECURSIVE ProductLoop(_, _, _)
ProductLoop(cols, i, m) ==
    IF i > Len(cols) THEN m
    ELSE LET col == cols[i]
             col_lower == ColLower(col)
         IN  IF Contains(col_lower, kw_product) /\ Contains(col_lower, kw_name)
             THEN Put(m, col, "product")
             ELSE IF Contains(col_lower, kw_product) /\ "product" \notin Values(m)
             THEN Put(m, col, "product")
             ELSE IF /\ (Contains(col_lower, kw_item) \/ Contains(col_lower, kw_name))
                     /\ "product" \notin Values(m)
             THEN Put(m, col, "product")
             ELSE ProductLoop(cols, i + 1, m)

\* an exact-match loop that finds nothing
RegionExactLoop_Off(cols, i, m) == [map |-> m, region_found |-> FALSE]

\* the three region loops; each returns the dict and region_found
RECURSIVE RegionExactLoop(_, _, _)
RegionExactLoop(cols, i, m) ==
    IF i > Len(cols) THEN [map |-> m, region_found |-> FALSE]
    ELSE IF ColLower(cols[i]) = kw_region
         THEN [map |-> Put(m, cols[i], "region"), region_found |-> TRUE]
         ELSE RegionExactLoop(cols, i + 1, m)

RECURSIVE RegionPartialLoop(_, _, _)
RegionPartialLoop(cols, i, m) ==
    IF i > Len(cols) THEN [map |-> m, region_found |-> FALSE]
    ELSE IF Contains(ColLower(cols[i]), kw_region)
         THEN [map |-> Put(m, cols[i], "region"), region_found |-> TRUE]
         ELSE RegionPartialLoop(cols, i + 1, m)

RECURSIVE RegionLastResortLoop(_, _, _)
RegionLastResortLoop(cols, i, m) ==
    IF i > Len(cols) THEN m
    ELSE IF ColLower(cols[i]) \in {kw_state, kw_country}
         THEN Put(m, cols[i], "region")
         ELSE RegionLastResortLoop(cols, i + 1, m)

\* region loops whose last resort runs whether or not a region was found
RegionLoops_AlwaysLastResort(cols, m) ==
    LET exact == RegionExactLoop(cols, 1, m)
        partial == IF ~exact.region_found
                   THEN RegionPartialLoop(cols, 1, exact.map)
                   ELSE exact
    IN  RegionLastResortLoop(cols, 1, partial.map)

RegionLoops(cols, m) ==
    LET exact == RegionExactLoop(cols, 1, m)
        partial == IF ~exact.region_found
                   THEN RegionPartialLoop(cols, 1, exact.map)
                   ELSE exact
    IN  IF ~partial.region_found
        THEN RegionLastResortLoop(cols, 1, partial.map)
        ELSE partial.map

\* the revenue loop
RECURSIVE RevenueLoop(_, _, _)
RevenueLoop(cols, i, m) ==
    IF i > Len(cols) THEN m
    ELSE LET col == cols[i]
             col_lower == ColLower(col)
         IN  IF col_lower = kw_sales
             THEN Put(m, col, "revenue")
             ELSE IF Contains(col_lower, kw_sales) /\ "revenue" \notin Values(m)
             THEN Put(m, col, "revenue")
             ELSE IF /\ col_lower \in {kw_revenue, kw_amount, kw_total}
                     /\ "revenue" \notin Values(m)
             THEN Put(m, col, "revenue")
             ELSE RevenueLoop(cols, i + 1, m)

\* the quantity loop
RECURSIVE QuantityLoop(_, _, _)
QuantityLoop(cols, i, m) ==
    IF i > Len(cols) THEN m
    ELSE LET col == cols[i]
             col_lower == ColLower(col)
         IN  IF col_lower = kw_quantity
             THEN Put(m, col, "quantity")
             ELSE IF Contains(col_lower, kw_quantity) \/ col_lower \in {kw_qty, kw_units}
             THEN Put(m, col, "quantity")
             ELSE QuantityLoop(cols, i + 1, m)

\* the dict map_column_names builds for a column list
BuildMapping(cols) ==
    LET m1 == DateLoop(cols, 1, <<>>)
        m2 == ProductLoop(cols, 1, m1)
        m3 == RegionLoops(cols, m2)
        m4 == RevenueLoop(cols, 1, m3)
    IN  QuantityLoop(cols, 1, m4)

\* a rename that leaves every column as it was
Rename_Nothing(cols, m) == cols

\* a rename that also lower-cases the columns the dict does not name
Rename_LowersOthers(cols, m) ==
    [i \in 1..Len(cols) |->
        IF cols[i] \in Keys(m) THEN CanonText(Get(m, cols[i])) ELSE Lower(cols[i])]

\* df.rename(columns=column_mapping), on the column list
Rename(cols, m) ==
    [i \in 1..Len(cols) |->
        IF cols[i] \in Keys(m) THEN CanonText(Get(m, cols[i])) ELSE cols[i]]

-----------------------------------------------------------------------------
(* Column names the mapper is run on                                       *)

Col_OrderDate == <<"O", "r", "d", "e", "r", " ", "D", "a", "t", "e">>
Col_ShipDate == <<"S", "h", "i", "p", " ", "D", "a", "t", "e">>
Col_DateLower == <<"d", "a", "t", "e">>
Col_ProductName == <<"P", "r", "o", "d", "u", "c", "t", " ", "N", "a", "m", "e">>
Col_ProductID == <<"P", "r", "o", "d", "u", "c", "t", " ", "I", "D">>
Col_CustomerName == <<"C", "u", "s", "t", "o", "m", "e", "r", " ", "N", "a", "m", "e">>
Col_Region == <<"R", "e", "g", "i", "o", "n">>
Col_SalesRegion == <<"S", "a", "l", "e", "s", " ", "R", "e", "g", "i", "o", "n">>
Col_State == <<"S", "t", "a", "t", "e">>
Col_Sales == <<"S", "a", "l", "e", "s">>
Col_Revenue == <<"R", "e", "v", "e", "n", "u", "e">>
Col_Quantity == <<"Q", "u", "a", "n", "t", "i", "t", "y">>
Col_OrderQuantity == <<"O", "r", "d", "e", "r", " ", "Q", "u", "a", "n", "t", "i", "t", "y">>
Col_QtyPadded == <<" ", "Q", "T", "Y", " ">>
Col_Profit == <<"P", "r", "o", "f", "i", "t">>
Col_Country == <<"C", "o", "u", "n", "t", "r", "y">>
Col_RegionPadded == <<" ", "r", "e", "g", "i", "o", "n", " ">>
Col_Discount == <<"D", "i", "s", "c", "o", "u", "n", "t">>

ColumnUniverse ==
    {Col_OrderDate, Col_ShipDate, Col_DateLower, Col_ProductName, Col_ProductID,
     Col_CustomerName, Col_Region, Col_SalesRegion, Col_State, Col_Sales,
     Col_Revenue, Col_Quantity, Col_OrderQuantity, Col_QtyPadded, Col_Profit,
     Col_Country, Col_RegionPadded, Col_Discount}

\* longest column list the mapper is run on
MaxCols == 3

\* lists of pairwise distinct names (a DataFrame read from CSV has no two
\* columns of the same name)
RECURSIVE DistinctLists(_, _)
DistinctLists(U, n) ==
    IF n = 0 THEN {<<>>}
    ELSE LET shorter == DistinctLists(U, n - 1)
             longest == {x \in shorter : Len(x) = n - 1}
         IN  shorter \cup
             UNION {{Append(l, c) : c \in U \ Range(l)} : l \in longest}

ColumnLists == DistinctLists(ColumnUniverse, MaxCols)

-----------------------------------------------------------------------------
(* The mapper as a state machine: a raw column list, then the call         *)

MapIdle ==
    /\ map_pc = "idle"
    /\ df_columns = <<>>
    /\ column_mapping = <<>>
    /\ mapped_columns = <<>>

CleanIdle ==
    /\ clean_pc = "idle"
    /\ df = [cols |-> {}, rows |-> <<>>]
    /\ calls = <<>>
    /\ df_cleaned = [cols |-> {}, rows |-> <<>>]
    /\ raised = FALSE
    /\ removed = 0
    /\ steps = <<>>

AnIdle ==
    /\ an_pc = "idle"
    /\ an_df = [cols |-> {}, rows |-> <<>>]
    /\ an_call = "none"
    /\ an_n = 0
    /\ an_cost_column = "none"
    /\ an_result = <<>>
    /\ an_raised = FALSE

PipeIdle ==
    /\ entry = "none"
    /\ pipe_pc = "idle"
    /\ file_exists = FALSE
    /\ raw_data = [columns |-> <<>>, rows |-> <<>>]
    /\ pipe_mapping = <<>>
    /\ df_mapped = [columns |-> <<>>, rows |-> <<>>]
    /\ missing_columns = <<>>
    /\ issues = <<>>
    /\ cleaned_data = [cols |-> {}, rows |-> <<>>]
    /\ clean_calls = 0
    /\ outcome = "running"

SessIdle ==
    /\ heap = <<>>
    /\ refs = [df |-> 0, cleaned |-> 0, analyzer |-> 0]
    /\ expected = <<>>
    /\ baseline = <<>>
    /\ sess_result = <<>>
    /\ edits = 0

MapInit ==
    /\ map_pc = "input"
    /\ df_columns \in ColumnLists
    /\ column_mapping = <<>>
    /\ mapped_columns = <<>>
    /\ CleanIdle /\ AnIdle /\ PipeIdle /\ SessIdle

\* map_column_names(df): builds the dict, then renames when it is non-empty
MapColumnNames ==
    /\ map_pc = "input"
    /\ LET m == BuildMapping(df_columns)
       IN  /\ column_mapping' = m
           /\ mapped_columns' = IF m # <<>> THEN Rename(df_columns, m) ELSE df_columns
    /\ map_pc' = "mapped"
    /\ UNCHANGED <<df_columns, notMap>>

MapNext == MapColumnNames

SpecMap == MapInit /\ [][MapNext]_vars

-----------------------------------------------------------------------------
(* Claims about map_column_names                                           *)

\* the original columns the returned dict sends to a field
MappedTo(field) == {c \in Keys(column_mapping) : Get(column_mapping, c) = field}

HasDate(col) == Contains(ColLower(col), kw_date)

PreferredDate(col) ==
    /\ HasDate(col)
    /\ \/ Contains(ColLower(col), kw_order)
       \/ Contains(ColLower(col), kw_transaction)
       \/ Contains(ColLower(col), kw_sale)

\* the first column of the list that satisfies P
FirstIndex(cols, P(_)) == CHOOSE i \in 1..Len(cols) : P(cols[i]) /\ \A j \in 1..(i - 1) : ~P(cols[j])

\* C7: when some column contains "date" together with "order", "transaction"
\* or "sale", the column mapped to date is such a column, wherever it stands in
\* the list; only when there is none is the first "date" column taken.
C7_DatePrefersOrderDate ==
    map_pc = "mapped" =>
        /\ (\E c \in Range(df_columns) : PreferredDate(c)) =>
               /\ MappedTo("date") # {}
               /\ \A c \in MappedTo("date") : PreferredDate(c)
        /\ ((\E c \in Range(df_columns) : HasDate(c))
                /\ ~\E c \in Range(df_columns) : PreferredDate(c)) =>
               MappedTo("date") = {df_columns[FirstIndex(df_columns, HasDate)]}

HasProduct(col) == Contains(ColLower(col), kw_product)

HasProductName(col) == HasProduct(col) /\ Contains(ColLower(col), kw_name)

HasItemOrName(col) ==
    Contains(ColLower(col), kw_item) \/ Contains(ColLower(col), kw_name)

\* C8: a column containing "product" and "name" is chosen for product over one
\* containing only "product", and one containing "product" over one containing
\* only "item" or "name", whatever the order of the columns.
C8_ProductPrefersProductName ==
    map_pc = "mapped" =>
        /\ (\E c \in Range(df_columns) : HasProductName(c)) =>
               /\ MappedTo("product") # {}
               /\ \A c \in MappedTo("product") : HasProductName(c)
        /\ (\E c \in Range(df_columns) : HasProduct(c)) =>
               /\ MappedTo("product") # {}
               /\ \A c \in MappedTo("product") : HasProduct(c)

IsSales(col) == ColLower(col) = kw_sales

HasSales(col) == Contains(ColLower(col), kw_sales)

IsRevenueWord(col) == ColLower(col) \in {kw_revenue, kw_amount, kw_total}

\* C9: a column named exactly "sales" is chosen for revenue over any column that
\* merely contains "sales", and a column containing "sales" over a column named
\* "revenue", "amount" or "total", whatever the order of the columns.
C9_RevenuePrefersExactSales ==
    map_pc = "mapped" =>
        /\ (\E c \in Range(df_columns) : IsSales(c)) =>
               /\ MappedTo("revenue") # {}
               /\ \A c \in MappedTo("revenue") : IsSales(c)
        /\ (\E c \in Range(df_columns) : HasSales(c)) =>
               /\ MappedTo("revenue") # {}
               /\ \A c \in MappedTo("revenue") : HasSales(c)

IsQuantity(col) == ColLower(col) = kw_quantity

\* C10: a column named exactly "quantity" is chosen for quantity over a column
\* that only contains "quantity" or is named "qty" or "units", whatever the
\* order of the columns.
C10_QuantityPrefersExact ==
    map_pc = "mapped" =>
        ((\E c \in Range(df_columns) : IsQuantity(c)) =>
            /\ MappedTo("quantity") # {}
            /\ \A c \in MappedTo("quantity") : IsQuantity(c))

IsRegion(col) == ColLower(col) = kw_region

HasRegion(col) == Contains(ColLower(col), kw_region)

IsStateOrCountry(col) == ColLower(col) \in {kw_state, kw_country}

\* C11: when the list holds a column named exactly "region" (case-insensitive,
\* trimmed), the first such column is the one and only column mapped to region,
\* also when a column that merely contains "region" stands before it; a column
\* mapped to region that does not contain "region" is a "state" or "country"
\* column, and then no column of the list contains "region".
C11_RegionPrefersExact ==
    map_pc = "mapped" =>
        /\ (\E c \in Range(df_columns) : IsRegion(c)) =>
               MappedTo("region") = {df_columns[FirstIndex(df_columns, IsRegion)]}
        /\ \A c \in MappedTo("region") :
               ~HasRegion(c) =>
                   /\ IsStateOrCountry(c)
                   /\ \A d \in Range(df_columns) : ~HasRegion(d)

\* an exact "region" column was mapped although a partial match precedes it
C11_ExactChosenAfterPartial ==
    /\ map_pc = "mapped"
    /\ \E i, j \in 1..Len(df_columns) :
           /\ i < j
           /\ HasRegion(df_columns[i]) /\ ~IsRegion(df_columns[i])
           /\ IsRegion(df_columns[j])
           /\ MappedTo("region") = {df_columns[j]}

\* C13: the returned mapping sends at most one original column to each
\* canonical field.
C13_AtMostOneColumnPerField ==
    map_pc = "mapped" =>
        \A f \in {"date", "product", "region", "revenue", "quantity"} :
            Cardinality(MappedTo(f)) <= 1

\* several columns of the list qualify for a field and exactly one was mapped
C13_SeveralCandidatesOneMapped ==
    /\ map_pc = "mapped"
    /\ Cardinality({c \in Range(df_columns) : HasRegion(c) \/ IsStateOrCountry(c)}) >= 2
    /\ Cardinality({c \in Range(df_columns) : HasDate(c)}) >= 1
    /\ Cardinality(MappedTo("region")) = 1
    /\ Cardinality(MappedTo("date")) = 1

\* whether some rule of map_column_names matches the column
MatchesSomeRule(col) ==
    \/ HasDate(col)
    \/ HasProduct(col) \/ HasItemOrName(col)
    \/ HasRegion(col) \/ IsStateOrCountry(col)
    \/ HasSales(col) \/ IsRevenueWord(col)
    \/ Contains(ColLower(col), kw_quantity) \/ ColLower(col) \in {kw_qty, kw_units}

\* C14: for a list in which no name matches any rule the mapping is empty and
\* the columns are returned unchanged; in every case the renamed table has as
\* many columns as the input, and each column that is not a key of the mapping
\* keeps its name at its position.
C14_UnmatchedColumnsPassThrough ==
    map_pc = "mapped" =>
        /\ (\A c \in Range(df_columns) : ~MatchesSomeRule(c)) =>
               (column_mapping = <<>> /\ mapped_columns = df_columns)
        /\ Len(mapped_columns) = Len(df_columns)
        /\ \A i \in 1..Len(df_columns) :
               df_columns[i] \notin Keys(column_mapping) =>
                   mapped_columns[i] = df_columns[i]

\* a table of which one column was renamed and another, with capital letters,
\* was passed through
C14_PartlyRenamed ==
    /\ map_pc = "mapped"
    /\ column_mapping # <<>>
    /\ \E i \in 1..Len(df_columns) :
           /\ df_columns[i] \notin Keys(column_mapping)
           /\ Lower(df_columns[i]) # df_columns[i]
           /\ mapped_columns[i] = df_columns[i]

-----------------------------------------------------------------------------
(* Tables.  A table is [cols, rows]: cols is the set of its canonical      *)
(* column names, rows a sequence of records over the five canonical        *)
(* fields; the cell of a column the table does not have is Absent.         *)

Fields == {"date", "product", "region", "revenue", "quantity"}

Num(n) == [k |-> "num", n |-> n, s |-> <<>>]
Str(s) == [k |-> "str", n |-> 0, s |-> s]
Ts(n) == [k |-> "ts", n |-> n, s |-> <<>>]
NaN == [k |-> "nan", n |-> 0, s |-> <<>>]
NaT == [k |-> "nat", n |-> 0, s |-> <<>>]
Absent == [k |-> "absent", n |-> 0, s |-> <<>>]

\* Series.isnull(), per cell
IsNull(c) == c.k \in {"nan", "nat"}

\* the cells of one column, top to bottom
Column(t, col) == [i \in 1..Len(t.rows) |-> t.rows[i][col]]

\* the dtype pandas holds the column in: float64/int64 for numbers with or
\* without NaN, datetime64 for timestamps, object for anything else
Dtype(t, col) ==
    IF \A i \in 1..Len(t.rows) : t.rows[i][col].k \in {"num", "nan"} THEN "number"
    ELSE IF \A i \in 1..Len(t.rows) : t.rows[i][col].k \in {"ts", "nat"} THEN "datetime"
    ELSE "object"

\* df.isnull().sum().sum()
MissingCount(t) ==
    Cardinality({<<i, c>> \in (1..Len(t.rows)) \X t.cols : IsNull(t.rows[i][c])})

\* the sequence s restricted to the positions in keep, order kept
RECURSIVE Filter(_, _, _)
Filter(s, keep, i) ==
    IF i > Len(s) THEN <<>>
    ELSE IF i \in keep THEN <<s[i]>> \o Filter(s, keep, i + 1)
    ELSE Filter(s, keep, i + 1)

\* the table with column col replaced by the cells cells[1..]
SetColumn(t, col, cells) ==
    [t EXCEPT !.rows = [i \in 1..Len(t.rows) |-> [t.rows[i] EXCEPT ![col] = cells[i]]]]

-----------------------------------------------------------------------------
(* Parsing and formatting of cell values                                   *)

Digits == <<"0", "1", "2", "3", "4", "5", "6", "7", "8", "9">>

IsDigit(ch) == \E i \in 1..Len(Digits) : Digits[i] = ch

DigitVal(ch) == (CHOOSE i \in 1..Len(Digits) : Digits[i] = ch) - 1

AllDigits(s) == Len(s) > 0 /\ \A i \in 1..Len(s) : IsDigit(s[i])

\* the value of a digit string
RECURSIVE DigitsVal(_)
DigitsVal(s) ==
    IF Len(s) = 0 THEN 0
    ELSE 10 * DigitsVal(SubSeq(s, 1, Len(s) - 1)) + DigitVal(s[Len(s)])

\* the decimal text of a natural number
RECURSIVE NatText(_)
NatText(n) ==
    IF n < 10 THEN <<Digits[n + 1]>>
    ELSE NatText(n \div 10) \o <<Digits[(n % 10) + 1]>>

IntText(n) == IF n < 0 THEN <<"-">> \o NatText(-n) ELSE NatText(n)

\* pd.to_numeric(text, errors='coerce') : an optional sign, digits, and an
\* optional fraction of zeros give the number; any other text gives NaN
ParseNumber(s) ==
    LET neg == Len(s) > 0 /\ s[1] = "-"
        body == IF neg THEN SubSeq(s, 2, Len(s)) ELSE s
        dots == {i \in 1..Len(body) : body[i] = "."}
        whole == IF dots = {} THEN body
                 ELSE SubSeq(body, 1, (CHOOSE i \in dots : \A j \in dots : i <= j) - 1)
        frac == IF dots = {} THEN <<>>
                ELSE SubSeq(body, (CHOOSE i \in dots : \A j \in dots : i <= j) + 1, Len(body))
    IN  IF AllDigits(whole) /\ \A i \in 1..Len(frac) : frac[i] = "0"
        THEN Num(IF neg THEN -DigitsVal(whole) ELSE DigitsVal(whole))
        ELSE NaN

IsLeap(y) == (y % 4 = 0 /\ y % 100 # 0) \/ y % 400 = 0

DaysIn(y, m) ==
    IF m = 2 THEN (IF IsLeap(y) THEN 29 ELSE 28)
    ELSE IF m \in {4, 6, 9, 11} THEN 30 ELSE 31

\* pd.to_datetime(text, errors='coerce') on yyyy-mm-dd text: the timestamp
\* as yyyymmdd, or NaT when the text is no calendar date
ParseDate(s) ==
    IF /\ Len(s) = 10
       /\ s[5] = "-" /\ s[8] = "-"
       /\ AllDigits(SubSeq(s, 1, 4)) /\ AllDigits(SubSeq(s, 6, 7))
       /\ AllDigits(SubSeq(s, 9, 10))
    THEN LET y == DigitsVal(SubSeq(s, 1, 4))
             m == DigitsVal(SubSeq(s, 6, 7))
             d == DigitsVal(SubSeq(s, 9, 10))
         IN  IF m \in 1..12 /\ d \in 1..DaysIn(y, m)
             THEN Ts(y * 10000 + m * 100 + d)
             ELSE NaT
    ELSE NaT

\* pd.to_datetime(..., errors='coerce'), per cell
ToDatetime(c) ==
    CASE c.k = "str" -> ParseDate(c.s)
      [] c.k = "ts" -> c
      [] c.k \in {"nan", "nat"} -> NaT

\* pd.to_numeric(..., errors='coerce'), per cell
ToNumeric(c) ==
    CASE c.k = "num" -> c
      [] c.k = "str" -> ParseNumber(c.s)
      [] c.k \in {"nan", "nat"} -> NaN

\* Series.astype(str), per cell: a missing value becomes the text "nan"; a
\* number of a float column (one holding NaN) is written with ".0"
AsStr(c, isFloat) ==
    CASE c.k = "str" -> c
      [] c.k = "num" -> Str(IntText(c.n) \o (IF isFloat THEN <<".", "0">> ELSE <<>>))
      [] c.k = "nan" -> Str(<<"n", "a", "n">>)
      [] c.k = "nat" -> Str(<<"N", "a", "T">>)

-----------------------------------------------------------------------------
(* Column statistics used by handle_missing_values                         *)

\* the numbers of a sequence of cells, missing values skipped
NumbersOf(cells) ==
    LET keep == {i \in 1..Len(cells) : cells[i].k = "num"}
        kept == Filter(cells, keep, 1)
    IN  [i \in 1..Len(kept) |-> kept[i].n]

\* insert x into the ascending sequence s
RECURSIVE Insert(_, _)
Insert(s, x) ==
    IF Len(s) = 0 THEN <<x>>
    ELSE IF x <= s[1] THEN <<x>> \o s
    ELSE <<s[1]>> \o Insert(Tail(s), x)

RECURSIVE SortNums(_)
SortNums(s) == IF Len(s) = 0 THEN <<>> ELSE Insert(SortNums(Tail(s)), s[1])

\* Series.median(): NaN for no value, the middle value, or the mean of the
\* two middle values (the amounts of the model are chosen so that this mean
\* is a whole number)
Median(cells) ==
    LET v == SortNums(NumbersOf(cells))
        n == Len(v)
    IN  IF n = 0 THEN NaN
        ELSE IF n % 2 = 1 THEN Num(v[(n + 1) \div 2])
        ELSE Num((v[n \div 2] + v[n \div 2 + 1]) \div 2)

\* character order of Python's string comparison, for the characters used
Ascii == <<" ", "-", ".", "/">> \o Digits \o UpperCase \o LowerCase

CharCode(ch) == CHOOSE i \in 1..Len(Ascii) : Ascii[i] = ch

\* a < b for texts
RECURSIVE TextLess(_, _)
TextLess(a, b) ==
    IF Len(b) = 0 THEN FALSE
    ELSE IF Len(a) = 0 THEN TRUE
    ELSE IF a[1] = b[1] THEN TextLess(Tail(a), Tail(b))
    ELSE CharCode(a[1]) < CharCode(b[1])

\* Series.mode() of a text column: the most frequent non-missing values,
\* sorted; the empty sequence when every value is missing.  ModeFirst is
\* mode()[0], the caller's fallback when mode() is empty.
ModeFirst(cells, fallback) ==
    LET present == {cells[i] : i \in {j \in 1..Len(cells) : ~IsNull(cells[j])}}
        Count(v) == Cardinality({i \in 1..Len(cells) : cells[i] = v})
        most == {v \in present : \A w \in present : Count(w) <= Count(v)}
    IN  IF present = {} THEN fallback
        ELSE CHOOSE v \in most : \A w \in most : w = v \/ TextLess(v.s, w.s)

\* Series.fillna(value): a NaN fill value changes nothing
FillNa(cells, value) ==
    [i \in 1..Len(cells) |-> IF IsNull(cells[i]) /\ ~IsNull(value) THEN value ELSE cells[i]]

\* Series.interpolate(method='linear'): a gap between two numbers is filled
\* on the straight line between them, positions equally spaced; a gap after
\* the last number repeats it; a gap before the first number stays missing
Interpolate(cells) ==
    [k \in 1..Len(cells) |->
        IF cells[k].k # "nan" THEN cells[k]
        ELSE LET before == {i \in 1..(k - 1) : cells[i].k = "num"}
                 after == {j \in (k + 1)..Len(cells) : cells[j].k = "num"}
             IN  IF before = {} THEN cells[k]
                 ELSE LET i == CHOOSE x \in before : \A y \in before : y <= x
                      IN  IF after = {} THEN cells[i]
                          ELSE LET j == CHOOSE x \in after : \A y \in after : x <= y
                               IN  Num(cells[i].n +
                                       ((cells[j].n - cells[i].n) * (k - i)) \div (j - i))]

-----------------------------------------------------------------------------
(* DataCleaner                                                             *)

\* df.drop_duplicates(): keep the first of the rows equal in every column
\* (two missing values count as equal)
DropDuplicates(t) ==
    LET keep == {i \in 1..Len(t.rows) : \A j \in 1..(i - 1) : t.rows[j] # t.rows[i]}
    IN  [t EXCEPT !.rows = Filter(t.rows, keep, 1)]

\* DataCleaner.remove_duplicates
remove_duplicates(t) == DropDuplicates(t)

\* removed_count, as remove_duplicates logs it
removed_count(t) == Len(t.rows) - Len(remove_duplicates(t).rows)

\* DataCleaner.fix_data_types
fix_data_types(t) ==
    LET d1 == IF "date" \in t.cols
              THEN SetColumn(t, "date",
                       [i \in 1..Len(t.rows) |-> ToDatetime(t.rows[i].date)])
              ELSE t
        NumCol(x, col) ==
              IF col \in x.cols
              THEN SetColumn(x, col,
                       [i \in 1..Len(x.rows) |-> ToNumeric(x.rows[i][col])])
              ELSE x
        d2 == NumCol(NumCol(d1, "revenue"), "quantity")
        StrCol(x, col) ==
              IF col \in x.cols
              THEN LET isFloat == Dtype(x, col) = "number"
                                  /\ \E i \in 1..Len(x.rows) : IsNull(x.rows[i][col])
                   IN  SetColumn(x, col,
                           [i \in 1..Len(x.rows) |-> AsStr(x.rows[i][col], isFloat)])
              ELSE x
    IN  StrCol(StrCol(d2, "product"), "region")

\* the order in which the columns of the table are visited
ColumnOrder == required_columns

\* the 'fill' branch: median for number columns, mode for object columns
RECURSIVE FillColumns(_, _)
FillColumns(t, i) ==
    IF i > Len(ColumnOrder) THEN t
    ELSE LET col == ColumnOrder[i]
             cells == Column(t, col)
             hasNull == \E k \in 1..Len(cells) : IsNull(cells[k])
             next ==
                 IF col \notin t.cols \/ ~hasNull THEN t
                 ELSE IF Dtype(t, col) = "number"
                      THEN SetColumn(t, col, FillNa(cells, Median(cells)))
                 ELSE IF Dtype(t, col) = "object"
                      THEN SetColumn(t, col,
                               FillNa(cells, ModeFirst(cells,
                                   Str(<<"U", "n", "k", "n", "o", "w", "n">>))))
                 ELSE t
         IN  FillColumns(next, i + 1)

\* the 'interpolate' branch: number columns only
RECURSIVE InterpolateColumns(_, _)
InterpolateColumns(t, i) ==
    IF i > Len(ColumnOrder) THEN t
    ELSE LET col == ColumnOrder[i]
             cells == Column(t, col)
             hasNull == \E k \in 1..Len(cells) : IsNull(cells[k])
             next ==
                 IF col \in t.cols /\ hasNull /\ Dtype(t, col) = "number"
                 THEN SetColumn(t, col, Interpolate(cells))
                 ELSE t
         IN  InterpolateColumns(next, i + 1)

\* df.dropna(): the rows with no missing value in any column
DropNa(t) ==
    LET keep == {i \in 1..Len(t.rows) : \A c \in t.cols : ~IsNull(t.rows[i][c])}
    IN  [t EXCEPT !.rows = Filter(t.rows, keep, 1)]

\* DataCleaner.handle_missing_values: returns [raised, df]; no branch raises
handle_missing_values(t, strategy) ==
    IF MissingCount(t) = 0 THEN [raised |-> FALSE, df |-> t]
    ELSE IF strategy = "drop" THEN [raised |-> FALSE, df |-> DropNa(t)]
    ELSE IF strategy = "fill" THEN [raised |-> FALSE, df |-> FillColumns(t, 1)]
    ELSE IF strategy = "interpolate"
         THEN [raised |-> FALSE, df |-> InterpolateColumns(t, 1)]
    ELSE [raised |-> FALSE, df |-> t]

\* clean_all with the last two steps in the other order
clean_all_steps_MissingFirst(t, handle_missing_strategy) ==
    LET d1 == remove_duplicates(t)
        r2 == handle_missing_values(d1, handle_missing_strategy)
        d3 == fix_data_types(r2.df)
    IN  <<[op |-> "remove_duplicates", strategy |-> "none", arg |-> t, out |-> d1],
          [op |-> "handle_missing_values", strategy |-> handle_missing_strategy,
           arg |-> d1, out |-> r2.df],
          [op |-> "fix_data_types", strategy |-> "none", arg |-> r2.df, out |-> d3]>>

\* the calls clean_all makes on the cleaner, in order, each with the table
\* it is given and the table it returns
clean_all_steps(t, handle_missing_strategy) ==
    LET d1 == remove_duplicates(t)
        d2 == fix_data_types(d1)
        r3 == handle_missing_values(d2, handle_missing_strategy)
    IN  <<[op |-> "remove_duplicates", strategy |-> "none", arg |-> t, out |-> d1],
          [op |-> "fix_data_types", strategy |-> "none", arg |-> d1, out |-> d2],
          [op |-> "handle_missing_values", strategy |-> handle_missing_strategy,
           arg |-> d2, out |-> r3.df]>>

\* DataCleaner.clean_all: returns [raised, df], the table of the last call
clean_all(t, handle_missing_strategy) ==
    LET made == clean_all_steps(t, handle_missing_strategy)
    IN  [raised |-> FALSE, df |-> made[Len(made)].out]

-----------------------------------------------------------------------------
(* DataCleaner.remove_outliers, for columns of numbers or of text          *)

RECURSIVE SumInts(_)
SumInts(s) == IF Len(s) = 0 THEN 0 ELSE s[1] + SumInts(Tail(s))

\* Series.quantile(q / 4), times 4, of the ascending numbers v: linear
\* interpolation between the two ranks next to position q (n - 1) / 4
Quantile4(v, q) ==
    LET pos == q * (Len(v) - 1)
        lo == pos \div 4
        r == pos % 4
    IN  IF r = 0 THEN 4 * v[lo + 1]
        ELSE (4 - r) * v[lo + 1] + r * v[lo + 2]

\* the rows the 'iqr' branch keeps; the bounds are held times 8.  With no
\* number in the column the quantiles are NaN and no comparison is true.
IqrKeep(cells) ==
    LET v == SortNums(NumbersOf(cells))
    IN  IF Len(v) = 0 THEN {}
        ELSE LET Q1 == Quantile4(v, 1)
                 Q3 == Quantile4(v, 3)
                 IQR == Q3 - Q1
                 lower_bound == 2 * Q1 - 3 * IQR
                 upper_bound == 2 * Q3 + 3 * IQR
             IN  {i \in 1..Len(cells) :
                     /\ cells[i].k = "num"
                     /\ 8 * cells[i].n >= lower_bound
                     /\ 8 * cells[i].n <= upper_bound}

\* std > 0 for the numbers v: Series.std() is the sample deviation, NaN for
\* fewer than two numbers, and NaN > 0 is False
StdPositive(v) == Len(v) >= 2 /\ \E i \in 1..Len(v) : v[i] # v[1]

\* abs((x - mean) / std) < threshold for std > 0, squared and cleared of
\* fractions: with n numbers of sum S,
\*   (n x - S)^2 (n - 1) < threshold^2 * SUM (n v[i] - S)^2
ZScoreBelow(x, v, threshold) ==
    LET n == Len(v)
        S == SumInts(v)
        dev == [i \in 1..n |-> (n * v[i] - S) * (n * v[i] - S)]
    IN  (n * x - S) * (n * x - S) * (n - 1) < threshold * threshold * SumInts(dev)

\* the 'zscore' branch with the test for std > 0 left out
ZScoreKeep_Unguarded(cells) ==
    LET v == NumbersOf(cells)
    IN  {i \in 1..Len(cells) : cells[i].k = "num" /\ ZScoreBelow(cells[i].n, v, 3)}

\* the rows the 'zscore' branch keeps: a missing value has a NaN z-score,
\* and NaN < 3 is False
ZScoreKeep(cells) ==
    LET v == NumbersOf(cells)
    IN  IF StdPositive(v)
        THEN {i \in 1..Len(cells) : cells[i].k = "num" /\ ZScoreBelow(cells[i].n, v, 3)}
        ELSE 1..Len(cells)

\* DataCleaner.remove_outliers: returns [raised, df].  quantile(), mean()
\* and std() raise TypeError on a column of text; a method that is neither
\* 'iqr' nor 'zscore' takes no branch.
remove_outliers(t, column, method) ==
    IF column \notin t.cols THEN [raised |-> FALSE, df |-> t]
    ELSE IF method \in {"iqr", "zscore"} /\ Dtype(t, column) # "number"
         THEN [raised |-> TRUE, df |-> t]
    ELSE LET cells == Column(t, column)
             keep == IF method = "iqr" THEN IqrKeep(cells)
                     ELSE IF method = "zscore" THEN ZScoreKeep(cells)
                     ELSE 1..Len(cells)
         IN  [raised |-> FALSE, df |-> [t EXCEPT !.rows = Filter(t.rows, keep, 1)]]

-----------------------------------------------------------------------------
(* DataAnalyzer.  Every aggregate returns [raised, value]: raised is the   *)
(* ValueError of its column check.                                         *)

\* Series.sum(): missing values are skipped
RECURSIVE SumCells(_)
SumCells(cells) ==
    IF Len(cells) = 0 THEN 0
    ELSE (IF cells[1].k = "num" THEN cells[1].n ELSE 0) + SumCells(Tail(cells))

\* DataAnalyzer.calculate_total_revenue
calculate_total_revenue(t) ==
    IF "revenue" \notin t.cols THEN [raised |-> TRUE, value |-> 0]
    ELSE [raised |-> FALSE, value |-> SumCells(Column(t, "revenue"))]

\* the group keys of df.groupby(col): the distinct values of the column; rows
\* whose key is missing belong to no group
GroupKeys(t, col) == {t.rows[i][col] : i \in {j \in 1..Len(t.rows) : ~IsNull(t.rows[j][col])}}

\* groupby(col)['revenue'].sum() for one key
GroupSum(t, col, key) ==
    SumCells(Filter(Column(t, "revenue"), {i \in 1..Len(t.rows) : t.rows[i][col] = key}, 1))

\* a < b for group keys: texts by character order, timestamps by time
KeyLess(a, b) ==
    IF a.k = "str" /\ b.k = "str" THEN TextLess(a.s, b.s) ELSE a.n < b.n

\* the keys in ascending order, as groupby (sort=True) yields them
RECURSIVE SortedKeys(_)
SortedKeys(keys) ==
    IF keys = {} THEN <<>>
    ELSE LET least == CHOOSE a \in keys : \A b \in keys : a = b \/ KeyLess(a, b)
         IN  <<least>> \o SortedKeys(keys \ {least})

\* an insertion that orders by total, smallest first
RECURSIVE InsertDesc_Ascending(_, _)
InsertDesc_Ascending(s, p) ==
    IF Len(s) = 0 THEN <<p>>
    ELSE IF p.total_revenue < s[1].total_revenue THEN <<p>> \o s
    ELSE <<s[1]>> \o InsertDesc_Ascending(Tail(s), p)

\* insert the pair p into a sequence ordered by total, largest first; equal
\* totals keep the order in which they arrive
RECURSIVE InsertDesc(_, _)
InsertDesc(s, p) ==
    IF Len(s) = 0 THEN <<p>>
    ELSE IF p.total_revenue > s[1].total_revenue THEN <<p>> \o s
    ELSE <<s[1]>> \o InsertDesc(Tail(s), p)

\* sort_values(ascending=False)
RECURSIVE SortDesc(_, _)
SortDesc(s, i) ==
    IF i > Len(s) THEN <<>>
    ELSE InsertDesc(SortDesc(s, i + 1), s[i])

\* groupby(col)['revenue'].sum().sort_values(ascending=False).reset_index()
RevenueBy(t, col) ==
    LET keys == SortedKeys(GroupKeys(t, col))
        sums == [i \in 1..Len(keys) |->
                    [key |-> keys[i], total_revenue |-> GroupSum(t, col, keys[i])]]
        Rev(s) == [i \in 1..Len(s) |-> s[Len(s) + 1 - i]]
    IN  SortDesc(Rev(sums), 1)

\* DataAnalyzer.get_region_wise_revenue
get_region_wise_revenue(t) ==
    IF "region" \notin t.cols \/ "revenue" \notin t.cols
    THEN [raised |-> TRUE, value |-> <<>>]
    ELSE [raised |-> FALSE, value |-> RevenueBy(t, "region")]

\* DataAnalyzer.get_top_products: .head(n)
get_top_products(t, n) ==
    IF "product" \notin t.cols \/ "revenue" \notin t.cols
    THEN [raised |-> TRUE, value |-> <<>>]
    ELSE LET all == RevenueBy(t, "product")
         IN  [raised |-> FALSE,
              value |-> SubSeq(all, 1, IF n < Len(all) THEN n ELSE Len(all))]

\* dt.to_period('M') of a timestamp yyyymmdd, as yyyymm
PeriodM(c) == IF c.k = "ts" THEN Ts(c.n \div 100) ELSE NaT

\* str(period): yyyy-mm
MonthText(p) ==
    LET y == p.n \div 100
        m == p.n % 100
    IN  NatText(y) \o <<"-">> \o (IF m < 10 THEN <<"0">> ELSE <<>>) \o NatText(m)

RECURSIVE Gcd(_, _)
Gcd(a, b) == IF b = 0 THEN a ELSE Gcd(b, a % b)

Abs(x) == IF x < 0 THEN -x ELSE x

\* the float num/den: a fraction in lowest terms with a positive denominator;
\* division by zero gives inf, -inf or NaN as IEEE float division does
Ratio(num, den) ==
    IF den = 0
    THEN (IF num > 0 THEN [k |-> "inf", num |-> 0, den |-> 1]
          ELSE IF num < 0 THEN [k |-> "-inf", num |-> 0, den |-> 1]
          ELSE [k |-> "nan", num |-> 0, den |-> 1])
    ELSE LET g == Gcd(Abs(num), Abs(den))
             sgn == IF den < 0 THEN -1 ELSE 1
         IN  [k |-> "num", num |-> sgn * (num \div g), den |-> sgn * (den \div g)]

\* a percentage change taken against the current value
PctChange100_OverCurrent(revs, i) ==
    IF i = 1 THEN [k |-> "nan", num |-> 0, den |-> 1]
    ELSE Ratio((revs[i] - revs[i - 1]) * 100, revs[i])

\* Series.pct_change() * 100 at position i: missing for the first row,
\* else (curr - prev) / prev * 100
PctChange100(revs, i) ==
    IF i = 1 THEN [k |-> "nan", num |-> 0, den |-> 1]
    ELSE Ratio((revs[i] - revs[i - 1]) * 100, revs[i - 1])

\* a fillna that replaces nothing
FillNaZero_Off(r) == r

\* Series.fillna(0) on a growth rate: only a missing value is replaced
FillNaZero(r) == IF r.k = "nan" THEN [k |-> "num", num |-> 0, den |-> 1] ELSE r

\* pd.to_datetime(df['date']) without errors='coerce': text that is no date
\* raises
DateRaises(t) ==
    \E i \in 1..Len(t.rows) :
        t.rows[i].date.k = "str" /\ ParseDate(t.rows[i].date.s) = NaT

\* DataAnalyzer.calculate_monthly_growth_rate
calculate_monthly_growth_rate(t) ==
    IF "date" \notin t.cols \/ "revenue" \notin t.cols
    THEN [raised |-> TRUE, value |-> <<>>]
    ELSE IF DateRaises(t) THEN [raised |-> TRUE, value |-> <<>>]
    ELSE LET df_temp == SetColumn(t, "date",
                            [i \in 1..Len(t.rows) |-> PeriodM(ToDatetime(t.rows[i].date))])
             months == SortedKeys(GroupKeys(df_temp, "date"))
             revs == [i \in 1..Len(months) |-> GroupSum(df_temp, "date", months[i])]
         IN  [raised |-> FALSE,
              value |-> [i \in 1..Len(months) |->
                            [month |-> MonthText(months[i]),
                             revenue |-> revs[i],
                             growth_rate |-> FillNaZero(PctChange100(revs, i))]]]

-----------------------------------------------------------------------------
(* DataAnalyzer.calculate_profit_margin and get_summary_statistics.  A     *)
(* float that need not be whole is the fraction Ratio builds; arithmetic   *)
(* on it is exact.                                                         *)

RNaN == [k |-> "nan", num |-> 0, den |-> 1]

\* the float of a cell: a number, or missing
CellFloat(c) == IF c.k = "num" THEN Ratio(c.n, 1) ELSE RNaN

RSub(a, b) ==
    IF a.k # "num" \/ b.k # "num" THEN RNaN
    ELSE Ratio(a.num * b.den - b.num * a.den, a.den * b.den)

\* Series.sum() of floats: missing values are skipped
RECURSIVE RSum(_)
RSum(s) ==
    IF Len(s) = 0 THEN Ratio(0, 1)
    ELSE LET rest == RSum(Tail(s))
         IN  IF s[1].k # "num" THEN rest
             ELSE Ratio(s[1].num * rest.den + rest.num * s[1].den, s[1].den * rest.den)

\* a < b for two finite floats
RLess(a, b) == a.num * b.den < b.num * a.den

\* an estimate of half the revenue
EstimatedCost_Half(rev) ==
    IF rev.k # "num" THEN RNaN ELSE Ratio(rev.num * 5, rev.den * 10)

\* df_temp['revenue'] * 0.6
EstimatedCost(rev) ==
    IF rev.k # "num" THEN RNaN ELSE Ratio(rev.num * 6, rev.den * 10)

\* (profit / revenue) * 100, per row: a division by zero gives inf, -inf or
\* a missing value
RowMargin(profit, rev) ==
    IF profit.k # "num" \/ rev.k # "num" THEN RNaN
    ELSE IF rev.num = 0
         THEN (IF profit.num > 0 THEN [k |-> "inf", num |-> 0, den |-> 1]
               ELSE IF profit.num < 0 THEN [k |-> "-inf", num |-> 0, den |-> 1]
               ELSE RNaN)
    ELSE Ratio(profit.num * rev.den * 100, profit.den * rev.num)

\* a mean that is the first value
MarginMean_First(margins) == IF Len(margins) = 0 THEN RNaN ELSE margins[1]

\* the 'mean' of agg: missing values are skipped; inf and -inf together give
\* a missing value, one of them alone is the mean
MarginMean(margins) ==
    LET present == {i \in 1..Len(margins) : margins[i].k # "nan"}
        kept == Filter(margins, present, 1)
        kinds == {kept[i].k : i \in 1..Len(kept)}
        total == RSum(kept)
    IN  IF present = {} THEN RNaN
        ELSE IF "inf" \in kinds /\ "-inf" \in kinds THEN RNaN
        ELSE IF "inf" \in kinds THEN [k |-> "inf", num |-> 0, den |-> 1]
        ELSE IF "-inf" \in kinds THEN [k |-> "-inf", num |-> 0, den |-> 1]
        ELSE Ratio(total.num, total.den * Cardinality(present))

\* insert the row p into a sequence ordered by profit, largest first; equal
\* profits keep the order in which they arrive
RECURSIVE InsertByProfit(_, _)
InsertByProfit(s, p) ==
    IF Len(s) = 0 THEN <<p>>
    ELSE IF RLess(s[1].profit, p.profit) THEN <<p>> \o s
    ELSE <<s[1]>> \o InsertByProfit(Tail(s), p)

\* sort_values('profit', ascending=False)
RECURSIVE SortByProfit(_, _)
SortByProfit(s, i) ==
    IF i > Len(s) THEN <<>>
    ELSE InsertByProfit(SortByProfit(s, i + 1), s[i])

\* DataAnalyzer.calculate_profit_margin; cost_column "none" is None.  The
\* groupby on a table without a product column raises KeyError.
calculate_profit_margin(t, cost_column) ==
    IF "revenue" \notin t.cols THEN [raised |-> TRUE, value |-> <<>>]
    ELSE IF "product" \notin t.cols THEN [raised |-> TRUE, value |-> <<>>]
    ELSE LET n == Len(t.rows)
             rev == [i \in 1..n |-> CellFloat(t.rows[i].revenue)]
             cost == [i \in 1..n |->
                         IF cost_column # "none" /\ cost_column \in t.cols
                         THEN CellFloat(t.rows[i][cost_column])
                         ELSE EstimatedCost(rev[i])]
             profit == [i \in 1..n |-> RSub(rev[i], cost[i])]
             margin == [i \in 1..n |-> RowMargin(profit[i], rev[i])]
             keys == SortedKeys(GroupKeys(t, "product"))
             Of(key) == {i \in 1..n : t.rows[i].product = key}
             groups == [j \in 1..Len(keys) |->
                           [key |-> keys[j],
                            revenue |-> RSum(Filter(rev, Of(keys[j]), 1)),
                            cost |-> RSum(Filter(cost, Of(keys[j]), 1)),
                            profit |-> RSum(Filter(profit, Of(keys[j]), 1)),
                            profit_margin |-> MarginMean(Filter(margin, Of(keys[j]), 1))]]
             Rev(s) == [i \in 1..Len(s) |-> s[Len(s) + 1 - i]]
         IN  [raised |-> FALSE, value |-> SortByProfit(Rev(groups), 1)]

\* Python's None
None == [k |-> "none", n |-> 0, s |-> <<>>]

\* two decimal digits
TwoDigits(n) == (IF n < 10 THEN <<"0">> ELSE <<>>) \o NatText(n)

\* str() of a date cell: a timestamp as yyyy-mm-dd 00:00:00, a missing one as
\* NaT, a text as it is
DateText(c) ==
    CASE c.k = "ts" ->
             Str(NatText(c.n \div 10000) \o <<"-">> \o TwoDigits((c.n \div 100) % 100)
                 \o <<"-">> \o TwoDigits(c.n % 100)
                 \o <<" ", "0", "0", ":", "0", "0", ":", "0", "0">>)
      [] c.k = "str" -> c
      [] c.k \in {"nan", "nat"} -> Str(<<"N", "a", "T">>)

\* Series.min() / Series.max() of the date column: missing values skipped
DateExtreme(cells, wantMax) ==
    LET present == {cells[i] : i \in {j \in 1..Len(cells) : ~IsNull(cells[j])}}
        Before(a, b) == IF wantMax THEN KeyLess(b, a) ELSE KeyLess(a, b)
    IN  IF present = {} THEN NaT
        ELSE CHOOSE a \in present : \A b \in present : a = b \/ Before(a, b)

\* Series.mean(): missing values skipped, missing when there is no value
MeanCells(cells) ==
    LET v == NumbersOf(cells)
    IN  IF Len(v) = 0 THEN RNaN ELSE Ratio(SumCells(cells), Len(v))

\* Series.nunique(): the distinct non-missing values
NUnique(cells) ==
    Cardinality({cells[i] : i \in {j \in 1..Len(cells) : ~IsNull(cells[j])}})

\* DataAnalyzer.get_summary_statistics: only the missing revenue column
\* raises (in calculate_total_revenue); the other columns have defaults
get_summary_statistics(t) ==
    IF calculate_total_revenue(t).raised THEN [raised |-> TRUE, value |-> <<>>]
    ELSE [raised |-> FALSE,
          value |->
              [total_transactions |-> Len(t.rows),
               total_revenue |-> calculate_total_revenue(t).value,
               average_revenue_per_transaction |->
                   IF "revenue" \in t.cols THEN MeanCells(Column(t, "revenue"))
                   ELSE Ratio(0, 1),
               unique_products |->
                   IF "product" \in t.cols THEN NUnique(Column(t, "product")) ELSE 0,
               unique_regions |->
                   IF "region" \in t.cols THEN NUnique(Column(t, "region")) ELSE 0,
               date_range |->
                   [start |-> IF "date" \in t.cols
                              THEN DateText(DateExtreme(Column(t, "date"), FALSE))
                              ELSE None,
                    end |-> IF "date" \in t.cols
                            THEN DateText(DateExtreme(Column(t, "date"), TRUE))
                            ELSE None]]]

-----------------------------------------------------------------------------
(* The cleaner as a state machine: the caller holds a table, calls one     *)
(* DataCleaner operation on it, and may run remove_duplicates on what came *)
(* back                                                                    *)

\* texts of the input cells
Txt_Jan05 == <<"2", "0", "2", "4", "-", "0", "1", "-", "0", "5">>
Txt_bad == <<"b", "a", "d">>
Txt_abc == <<"a", "b", "c">>
Txt_60 == <<"6", "0">>
Txt_Widget == <<"W", "i", "d", "g", "e", "t">>
Txt_East == <<"E", "a", "s", "t">>

\* raw rows: dates that parse, do not parse or are missing; a product that
\* may be missing; amounts as numbers, numeric text, other text or missing
CleanRows ==
    [date : {Str(Txt_Jan05), Str(Txt_bad), NaN},
     product : {Str(Txt_Widget), NaN},
     region : {Str(Txt_East)},
     revenue : {Num(60), Num(120), Str(Txt_60), Str(Txt_abc), NaN},
     quantity : {Num(2)}]

\* most rows of a table given to the cleaner
MaxRows == 2

RECURSIVE SeqsUpTo(_, _)
SeqsUpTo(S, n) ==
    IF n = 0 THEN {<<>>}
    ELSE LET shorter == SeqsUpTo(S, n - 1)
         IN  shorter \cup
             {Append(l, x) : l \in {y \in shorter : Len(y) = n - 1}, x \in S}

CleanTables == {[cols |-> Fields, rows |-> r] : r \in SeqsUpTo(CleanRows, MaxRows)}

\* strategy names a caller passes; "mean" is not one the code knows
Strategies == {"fill", "drop", "interpolate", "mean"}

CleanInit ==
    /\ clean_pc = "input"
    /\ df \in CleanTables
    /\ calls = <<>>
    /\ df_cleaned = [cols |-> {}, rows |-> <<>>]
    /\ raised = FALSE
    /\ removed = 0
    /\ steps = <<>>
    /\ MapIdle /\ AnIdle /\ PipeIdle /\ SessIdle

\* the table the next call is made on
Current == IF clean_pc = "input" THEN df ELSE df_cleaned

Called == IF clean_pc = "input" THEN "called" ELSE "rerun"

\* cleaner.remove_duplicates(df), also on the table a first call returned
RemoveDuplicates ==
    /\ clean_pc \in {"input", "called"}
    /\ df_cleaned' = remove_duplicates(Current)
    /\ removed' = removed_count(Current)
    /\ raised' = FALSE
    /\ calls' = Append(calls, [op |-> "remove_duplicates", strategy |-> "none"])
    /\ clean_pc' = Called
    /\ UNCHANGED <<df, steps, notClean>>

\* cleaner.fix_data_types(df)
FixDataTypes ==
    /\ clean_pc = "input"
    /\ df_cleaned' = fix_data_types(df)
    /\ raised' = FALSE
    /\ calls' = Append(calls, [op |-> "fix_data_types", strategy |-> "none"])
    /\ clean_pc' = "called"
    /\ UNCHANGED <<df, removed, steps, notClean>>

\* cleaner.handle_missing_values(df, strategy)
HandleMissingValues ==
    /\ clean_pc = "input"
    /\ \E strategy \in Strategies :
        LET r == handle_missing_values(df, strategy)
        IN  /\ df_cleaned' = r.df
            /\ raised' = r.raised
            /\ calls' = Append(calls, [op |-> "handle_missing_values",
                                       strategy |-> strategy])
    /\ clean_pc' = "called"
    /\ UNCHANGED <<df, removed, steps, notClean>>

\* cleaner.clean_all(df, handle_missing_strategy)
CleanAll ==
    /\ clean_pc = "input"
    /\ \E strategy \in Strategies :
        LET r == clean_all(df, strategy)
        IN  /\ df_cleaned' = r.df
            /\ raised' = r.raised
            /\ calls' = Append(calls, [op |-> "clean_all", strategy |-> strategy])
            /\ steps' = clean_all_steps(df, strategy)
    /\ clean_pc' = "called"
    /\ UNCHANGED <<df, removed, notClean>>

CleanNext == RemoveDuplicates \/ FixDataTypes \/ HandleMissingValues \/ CleanAll

SpecClean == CleanInit /\ [][CleanNext]_vars

\* tables for remove_outliers: a run of equal amounts with an optional
\* different or missing amount before and after it; quantity numbers the rows
MaxBulk == 11

OutlierEnds == {<<>>, <<Num(0)>>, <<Num(120)>>, <<NaN>>}

OutlierRow(revenue, i) ==
    [date |-> Absent, product |-> Str(Txt_Widget), region |-> Absent,
     revenue |-> revenue, quantity |-> Num(i)]

OutlierTables ==
    {[cols |-> {"product", "revenue", "quantity"},
      rows |-> LET amounts == head \o [i \in 1..bulk |-> Num(60)] \o tail
               IN  [i \in 1..Len(amounts) |-> OutlierRow(amounts[i], i)]] :
        head \in OutlierEnds, bulk \in 1..MaxBulk, tail \in OutlierEnds}

\* column and method arguments: a column of numbers, one of text, one that is
\* absent; the two methods the code knows and one it does not
OutlierColumns == {"revenue", "product", "region"}

Methods == {"iqr", "zscore", "mad"}

OutInit ==
    /\ clean_pc = "input"
    /\ df \in OutlierTables
    /\ calls = <<>>
    /\ df_cleaned = [cols |-> {}, rows |-> <<>>]
    /\ raised = FALSE
    /\ removed = 0
    /\ steps = <<>>
    /\ MapIdle /\ AnIdle /\ PipeIdle /\ SessIdle

\* cleaner.remove_outliers(df, column, method)
RemoveOutliers ==
    /\ clean_pc = "input"
    /\ \E column \in OutlierColumns, method \in Methods :
        LET r == remove_outliers(df, column, method)
        IN  /\ df_cleaned' = r.df
            /\ raised' = r.raised
            /\ removed' = Len(df.rows) - Len(r.df.rows)
            /\ calls' = <<[op |-> "remove_outliers", column |-> column,
                           method |-> method]>>
    /\ clean_pc' = "called"
    /\ UNCHANGED <<df, steps, notClean>>

OutNext == RemoveOutliers

SpecOutliers == OutInit /\ [][OutNext]_vars

-----------------------------------------------------------------------------
(* Claims about DataCleaner                                                *)

KnownStrategies == {"fill", "drop", "interpolate"}

\* C1: remove_duplicates run on the output of clean_all (any strategy) removes
\* zero rows: the output of clean_all never holds two rows equal in every
\* column, also when type coercion or filling made raw rows equal.
C1_CleanAllLeavesNoDuplicates ==
    (/\ Len(calls) = 2
     /\ calls[1].op = "clean_all" /\ calls[1].strategy \in KnownStrategies
     /\ calls[2].op = "remove_duplicates") => removed = 0

\* C2: after clean_all with strategy 'fill' on a table with all five canonical
\* columns, no cell of date, product, region, revenue or quantity is missing.
C2_FillLeavesNoMissing ==
    (/\ Len(calls) = 1
     /\ calls[1].op = "clean_all" /\ calls[1].strategy = "fill"
     /\ df.cols = Fields) =>
        \A i \in 1..Len(df_cleaned.rows) : \A c \in Fields :
            ~IsNull(df_cleaned.rows[i][c])

\* C4: handle_missing_values, and clean_all which passes its strategy through,
\* called with a strategy other than 'fill', 'drop' or 'interpolate' fails
\* with an error instead of returning a table, with or without missing values.
C4_UnknownStrategyFails ==
    (/\ Len(calls) = 1
     /\ calls[1].op \in {"handle_missing_values", "clean_all"}
     /\ calls[1].strategy \notin KnownStrategies) => raised

-----------------------------------------------------------------------------
(* The analyzer as a state machine: constructed on a table, then any       *)
(* aggregate, any number of times                                          *)

Txt_Gadget == <<"G", "a", "d", "g", "e", "t">>

\* rows of a type-fixed table: two months and a missing date, two products,
\* a region that may be missing, and negative, zero, positive and missing
\* revenue
AnalyzerRows ==
    [date : {Ts(20240105), Ts(20240205), NaT},
     product : {Str(Txt_Widget), Str(Txt_Gadget)},
     region : {Str(Txt_East), NaN},
     revenue : {Num(-60), Num(0), Num(60), NaN},
     quantity : {Num(2)}]

\* most rows of a table given to the analyzer
MaxAnalyzerRows == 2

\* the table without one column
DropColumn(t, col) ==
    [cols |-> t.cols \ {col},
     rows |-> [i \in 1..Len(t.rows) |-> [t.rows[i] EXCEPT ![col] = Absent]]]

Txt_Feb05 == <<"2", "0", "2", "4", "-", "0", "2", "-", "0", "5">>

\* the table of two months: 100 in 2024-01, then 50 in 2024-02, the dates as
\* text
Table_TwoMonths ==
    [cols |-> Fields,
     rows |-> <<[date |-> Str(Txt_Jan05), product |-> Str(Txt_Widget),
                 region |-> Str(Txt_East), revenue |-> Num(100), quantity |-> Num(2)],
                [date |-> Str(Txt_Feb05), product |-> Str(Txt_Widget),
                 region |-> Str(Txt_East), revenue |-> Num(50), quantity |-> Num(1)]>>]

\* one row of revenue 100
Table_Revenue100 == [Table_TwoMonths EXCEPT !.rows = <<Table_TwoMonths.rows[1]>>]

\* tables with all five columns, one-row tables lacking one of them, the
\* table of two months and the one-row table of revenue 100
AnalyzerTables ==
    LET full == {[cols |-> Fields, rows |-> r] :
                    r \in SeqsUpTo(AnalyzerRows, MaxAnalyzerRows)}
    IN  full \cup {DropColumn(t, c) : t \in {x \in full : Len(x.rows) = 1}, c \in Fields}
             \cup {Table_TwoMonths, Table_Revenue100}

\* DataAnalyzer(df): self.df = df.copy()
AnInit ==
    /\ an_pc = "constructed"
    /\ an_df \in AnalyzerTables
    /\ an_call = "none"
    /\ an_n = 0
    /\ an_cost_column = "none"
    /\ an_result = <<>>
    /\ an_raised = FALSE
    /\ MapIdle /\ CleanIdle /\ PipeIdle /\ SessIdle

Returns(name, n, r) ==
    /\ an_call' = name
    /\ an_n' = n
    /\ an_cost_column' = "none"
    /\ an_result' = r.value
    /\ an_raised' = r.raised
    /\ an_pc' = "returned"
    /\ UNCHANGED <<an_df, notAn>>

CalculateTotalRevenue ==
    /\ an_pc \in {"constructed", "returned"}
    /\ Returns("calculate_total_revenue", 0, calculate_total_revenue(an_df))

GetRegionWiseRevenue ==
    /\ an_pc \in {"constructed", "returned"}
    /\ Returns("get_region_wise_revenue", 0, get_region_wise_revenue(an_df))

\* largest n passed to get_top_products
MaxTopN == 2

GetTopProducts ==
    /\ an_pc \in {"constructed", "returned"}
    /\ \E n \in 0..MaxTopN : Returns("get_top_products", n, get_top_products(an_df, n))

CalculateMonthlyGrowthRate ==
    /\ an_pc \in {"constructed", "returned"}
    /\ Returns("calculate_monthly_growth_rate", 0,
               calculate_monthly_growth_rate(an_df))

\* the cost_column arguments: None, a name that is no column, and the name
\* of a numeric column of the table
CostColumns == {"none", "cost", "quantity"}

CalculateProfitMargin ==
    /\ an_pc \in {"constructed", "returned"}
    /\ \E c \in CostColumns :
        LET r == calculate_profit_margin(an_df, c)
        IN  /\ an_call' = "calculate_profit_margin"
            /\ an_n' = 0
            /\ an_cost_column' = c
            /\ an_result' = r.value
            /\ an_raised' = r.raised
            /\ an_pc' = "returned"
            /\ UNCHANGED <<an_df, notAn>>

GetSummaryStatistics ==
    /\ an_pc \in {"constructed", "returned"}
    /\ Returns("get_summary_statistics", 0, get_summary_statistics(an_df))

AnNext ==
    \/ CalculateTotalRevenue
    \/ GetRegionWiseRevenue
    \/ GetTopProducts
    \/ CalculateMonthlyGrowthRate
    \/ CalculateProfitMargin
    \/ GetSummaryStatistics

SpecAnalyze == AnInit /\ [][AnNext]_vars

-----------------------------------------------------------------------------
(* Claims about DataAnalyzer                                               *)

Zero == [k |-> "num", num |-> 0, den |-> 1]

\* C5: in the table calculate_monthly_growth_rate returns, every row whose
\* preceding month has revenue 0 has growth_rate exactly 0, whatever its own
\* revenue, and no growth_rate is infinite or undefined.
C5_ZeroPriorGivesZeroGrowth ==
    (an_call = "calculate_monthly_growth_rate" /\ ~an_raised) =>
        /\ \A i \in 2..Len(an_result) :
               an_result[i - 1].revenue = 0 => an_result[i].growth_rate = Zero
        /\ \A i \in 1..Len(an_result) : an_result[i].growth_rate.k = "num"

RECURSIVE SumTotals(_)
SumTotals(s) == IF Len(s) = 0 THEN 0 ELSE s[1].total_revenue + SumTotals(Tail(s))

\* C6: for a table with a revenue column, calculate_total_revenue() equals the
\* sum of total_revenue over the rows of get_region_wise_revenue(), also when
\* some rows have a missing region.
C6_RegionTotalsSumToTotal ==
    (an_call = "get_region_wise_revenue" /\ ~an_raised) =>
        SumTotals(an_result) = calculate_total_revenue(an_df).value

-----------------------------------------------------------------------------
(* The pipeline: the app's process_data and the CLI's Dashboard.run.  A    *)
(* raw table is [columns, rows]: the column names and, per row, one cell   *)
(* per column.                                                             *)

\* a check that never looks for the quantity column
MissingColumns_NoQuantity(columns) ==
    LET keep == {i \in 1..(Len(required_columns) - 1) :
                    CanonText(required_columns[i]) \notin Range(columns)}
    IN  Filter(required_columns, keep, 1)

\* [col for col in required_columns if col not in df.columns]
MissingColumns(columns) ==
    LET keep == {i \in 1..Len(required_columns) :
                    CanonText(required_columns[i]) \notin Range(columns)}
    IN  Filter(required_columns, keep, 1)

\* a check that never stops the pipeline
CheckHalts_Never(missing) == FALSE

\* the `if missing_columns:` test of process_data
CheckHalts(missing) == missing # <<>>

\* the table as the cleaner and the analyzer see it: the canonical columns by
\* name, the other columns kept together as one field of the row
ToCanonical(t) ==
    LET present == {f \in Fields : CanonText(f) \in Range(t.columns)}
        At(f) == CHOOSE j \in 1..Len(t.columns) : t.columns[j] = CanonText(f)
        others == {j \in 1..Len(t.columns) :
                      \A f \in Fields : t.columns[j] # CanonText(f)}
    IN  [cols |-> present,
         rows |-> [i \in 1..Len(t.rows) |->
                     [f \in Fields \cup {"extra"} |->
                         IF f = "extra" THEN Filter(t.rows[i], others, 1)
                         ELSE IF f \in present THEN t.rows[i][At(f)]
                         ELSE Absent]]]

\* DataLoader.validate_data: the list of issues; is_valid is its emptiness
validate_data(t) ==
    LET c == ToCanonical(t)
        missing == MissingColumns(t.columns)
    IN  (IF missing # <<>> THEN <<"missing_columns">> ELSE <<>>)
        \o (IF Len(t.rows) = 0 \/ Len(t.columns) = 0 THEN <<"empty">> ELSE <<>>)
        \o (IF "date" \in c.cols /\ DateRaises(c) THEN <<"date">> ELSE <<>>)
        \o (IF "revenue" \in c.cols /\ Dtype(c, "revenue") # "number"
            THEN <<"revenue">> ELSE <<>>)
        \o (IF "quantity" \in c.cols /\ Dtype(c, "quantity") # "number"
            THEN <<"quantity">> ELSE <<>>)

\* whether one of the aggregates analyze_data calls raises
AnalyzeRaises(t) ==
    \/ calculate_total_revenue(t).raised
    \/ get_top_products(t, 10).raised
    \/ get_region_wise_revenue(t).raised
    \/ calculate_monthly_growth_rate(t).raised

\* headers of the files: a Superstore export, and the canonical names
Header_Superstore ==
    <<Col_OrderDate, Col_ProductName, Col_Region, Col_Sales, Col_Quantity>>

Header_Canonical == <<kw_date, kw_product, kw_region, kw_revenue, kw_quantity>>

\* the cells a column of the header's position may hold
KindCells ==
    <<{Str(Txt_Jan05), Str(Txt_bad)}, {Str(Txt_Widget)}, {Str(Txt_East)},
      {Num(60), Str(Txt_abc)}, {Num(2)}>>

\* the positions of a header that a file has, in order
RECURSIVE Ascending(_)
Ascending(S) ==
    IF S = {} THEN <<>>
    ELSE LET least == CHOOSE a \in S : \A b \in S : a <= b
         IN  <<least>> \o Ascending(S \ {least})

\* most rows of a file
MaxPipeRows == 1

\* the rows a file with the given header positions may hold
PipeRows(pos) ==
    {r \in [1..Len(pos) -> UNION Range(KindCells)] :
        \A j \in 1..Len(pos) : r[j] \in KindCells[pos[j]]}

PipeTables ==
    UNION {{[columns |-> [j \in 1..Len(pos) |-> h[pos[j]]], rows |-> rows] :
                rows \in SeqsUpTo(PipeRows(pos), MaxPipeRows)} :
           <<h, pos>> \in {Header_Superstore, Header_Canonical}
                          \X {Ascending(S) : S \in SUBSET (1..5)}}

PipeInit ==
    /\ entry \in {"app", "cli"}
    /\ pipe_pc = IF entry = "app" THEN "process_data" ELSE "run"
    /\ file_exists \in (IF entry = "app" THEN {TRUE} ELSE BOOLEAN)
    /\ raw_data \in (IF file_exists THEN PipeTables
                     ELSE {[columns |-> <<>>, rows |-> <<>>]})
    /\ pipe_mapping = <<>>
    /\ df_mapped = [columns |-> <<>>, rows |-> <<>>]
    /\ missing_columns = <<>>
    /\ issues = <<>>
    /\ cleaned_data = [cols |-> {}, rows |-> <<>>]
    /\ clean_calls = 0
    /\ outcome = "running"
    /\ MapIdle /\ CleanIdle /\ AnIdle /\ SessIdle

\* process_data: df_mapped, column_mapping = map_column_names(df)
PdMap ==
    /\ entry = "app" /\ pipe_pc = "process_data"
    /\ LET m == BuildMapping(raw_data.columns)
       IN  /\ pipe_mapping' = m
           /\ df_mapped' = IF m # <<>>
                           THEN [raw_data EXCEPT !.columns = Rename(raw_data.columns, m)]
                           ELSE raw_data
    /\ pipe_pc' = "mapped"
    /\ UNCHANGED <<entry, file_exists, raw_data, missing_columns, issues,
                   cleaned_data, clean_calls, outcome, notPipe>>

\* process_data: the required-columns check; returns the error message when
\* a column is missing
PdCheck ==
    /\ entry = "app" /\ pipe_pc = "mapped"
    /\ missing_columns' = MissingColumns(df_mapped.columns)
    /\ IF CheckHalts(missing_columns')
       THEN pipe_pc' = "returned" /\ outcome' = "error"
       ELSE pipe_pc' = "checked" /\ outcome' = outcome
    /\ UNCHANGED <<entry, file_exists, raw_data, pipe_mapping, df_mapped, issues,
                   cleaned_data, clean_calls, notPipe>>

\* process_data: cleaner.clean_all(df_mapped, 'fill'), DataAnalyzer, return
PdClean ==
    /\ entry = "app" /\ pipe_pc = "checked"
    /\ LET r == clean_all(ToCanonical(df_mapped), "fill")
       IN  /\ cleaned_data' = r.df
           /\ outcome' = IF r.raised THEN "error" ELSE "ok"
    /\ clean_calls' = clean_calls + 1
    /\ pipe_pc' = "returned"
    /\ UNCHANGED <<entry, file_exists, raw_data, pipe_mapping, df_mapped,
                   missing_columns, issues, notPipe>>

\* Dashboard.load_data: DataLoader.load_data raises for a missing or empty
\* file; validate_data's verdict is logged and the run goes on
LoadData ==
    /\ entry = "cli" /\ pipe_pc = "run"
    /\ IF ~file_exists \/ Len(raw_data.rows) = 0 \/ Len(raw_data.columns) = 0
       THEN /\ pipe_pc' = "raised" /\ outcome' = "raised"
            /\ UNCHANGED <<missing_columns, issues>>
       ELSE /\ missing_columns' = MissingColumns(raw_data.columns)
            /\ issues' = validate_data(raw_data)
            /\ pipe_pc' = "loaded" /\ outcome' = outcome
    /\ UNCHANGED <<entry, file_exists, raw_data, pipe_mapping, df_mapped,
                   cleaned_data, clean_calls, notPipe>>

\* Dashboard.clean_data: clean_all(self.raw_data, 'fill')
CleanData ==
    /\ entry = "cli" /\ pipe_pc = "loaded"
    /\ LET r == clean_all(ToCanonical(raw_data), "fill")
       IN  /\ cleaned_data' = r.df
           /\ IF r.raised
              THEN pipe_pc' = "raised" /\ outcome' = "raised"
              ELSE pipe_pc' = "cleaned" /\ outcome' = outcome
    /\ clean_calls' = clean_calls + 1
    /\ UNCHANGED <<entry, file_exists, raw_data, pipe_mapping, df_mapped,
                   missing_columns, issues, notPipe>>

\* Dashboard.analyze_data: DataAnalyzer(cleaned_data) and its aggregates; the
\* first ValueError ends the run
AnalyzeData ==
    /\ entry = "cli" /\ pipe_pc = "cleaned"
    /\ IF AnalyzeRaises(cleaned_data)
       THEN pipe_pc' = "raised" /\ outcome' = "raised"
       ELSE pipe_pc' = "analyzed" /\ outcome' = "ok"
    /\ UNCHANGED <<entry, file_exists, raw_data, pipe_mapping, df_mapped,
                   missing_columns, issues, cleaned_data, clean_calls, notPipe>>

PipeNext == PdMap \/ PdCheck \/ PdClean \/ LoadData \/ CleanData \/ AnalyzeData

SpecPipe == PipeInit /\ [][PipeNext]_vars

-----------------------------------------------------------------------------
(* Claims about the pipeline                                               *)

Pairs(m) == {m[i] : i \in DOMAIN m}

\* process_data has run its required-columns check
AppChecked == entry = "app" /\ pipe_pc \in {"checked", "returned"}

\* process_data's check let the table through to the cleaner
AppPassed == entry = "app" /\ (pipe_pc = "checked" \/ clean_calls > 0)

\* C12: on the columns Order Date, Product Name, Region, Sales, Quantity the
\* mapping map_column_names returns is exactly Order Date->date, Product
\* Name->product, Region->region, Sales->revenue, Quantity->quantity, the
\* renamed table carries the five canonical names, and process_data's check
\* finds none missing and goes on.
C12_SuperstoreHeaderMapsAndPasses ==
    (entry = "app" /\ raw_data.columns = Header_Superstore) =>
        /\ pipe_pc # "process_data" =>
               /\ Len(pipe_mapping) = 5
               /\ Pairs(pipe_mapping) =
                      {<<Col_OrderDate, "date">>, <<Col_ProductName, "product">>,
                       <<Col_Region, "region">>, <<Col_Sales, "revenue">>,
                       <<Col_Quantity, "quantity">>}
               /\ df_mapped.columns = Header_Canonical
        /\ AppChecked => (missing_columns = <<>> /\ AppPassed)

\* the Superstore header went through the mapper and the check
C12_SuperstorePassed ==
    /\ entry = "app" /\ raw_data.columns = Header_Superstore
    /\ pipe_pc = "checked"

\* the canonical names absent from a column list
AbsentFields(columns) == {f \in Fields : CanonText(f) \notin Range(columns)}

\* DataLoader.validate_data has returned (load_data did not raise)
CliValidated == entry = "cli" /\ (pipe_pc = "loaded" \/ clean_calls > 0)

\* C15 (as stated): both checks call the table valid exactly when all five
\* canonical columns are present, and their missing list is exactly the absent
\* canonical names.
C15_ValidIffAllFivePresent ==
    /\ AppChecked =>
           /\ AppPassed <=> AbsentFields(df_mapped.columns) = {}
           /\ Range(missing_columns) = AbsentFields(df_mapped.columns)
    /\ CliValidated =>
           /\ issues = <<>> <=> AbsentFields(raw_data.columns) = {}
           /\ Range(missing_columns) = AbsentFields(raw_data.columns)

\* C15 (amended): process_data's check passes the table exactly when all five
\* canonical columns are present; both checks list exactly the absent canonical
\* names, each once; validate_data reports the missing-columns issue exactly
\* when a canonical column is absent and calls the table valid only if all
\* five are present (it also rejects tables whose date does not parse or whose
\* revenue or quantity is not numeric).
C15_MissingListIsExact ==
    /\ AppChecked =>
           /\ AppPassed <=> AbsentFields(df_mapped.columns) = {}
           /\ Range(missing_columns) = AbsentFields(df_mapped.columns)
           /\ Len(missing_columns) = Cardinality(AbsentFields(df_mapped.columns))
    /\ CliValidated =>
           /\ "missing_columns" \in Range(issues) <=> AbsentFields(raw_data.columns) # {}
           /\ issues = <<>> => AbsentFields(raw_data.columns) = {}
           /\ Range(missing_columns) = AbsentFields(raw_data.columns)
           /\ Len(missing_columns) = Cardinality(AbsentFields(raw_data.columns))

\* validate_data has reported a table that lacks two or more canonical columns
C15_SeveralReportedMissing ==
    /\ entry = "cli" /\ pipe_pc = "loaded"
    /\ Len(missing_columns) >= 2
    /\ "missing_columns" \in Range(issues)

-----------------------------------------------------------------------------
(* Claims about the strategies of DataCleaner                              *)

\* the row has no missing value in any column
NoMissing(row) == \A c \in Fields : ~IsNull(row[c])

\* the row as fix_data_types leaves it
TypeFixed(row) == fix_data_types([cols |-> Fields, rows |-> <<row>>]).rows[1]

\* C16: after clean_all with strategy 'drop', every row of the output is the
\* type-fixed form of an input row that had no missing value in any column:
\* no row with a missing date, product, region, revenue or quantity survives.
C16_DropRemovesRowsWithMissing ==
    (/\ Len(calls) = 1
     /\ calls[1].op = "clean_all" /\ calls[1].strategy = "drop") =>
        \A k \in 1..Len(df_cleaned.rows) :
            \E i \in 1..Len(df.rows) :
                NoMissing(df.rows[i]) /\ TypeFixed(df.rows[i]) = df_cleaned.rows[k]

Txt_Unknown == <<"U", "n", "k", "n", "o", "w", "n">>

\* C17: handle_missing_values with strategy 'fill' keeps the number of rows and
\* every non-missing cell; each missing cell of a numeric revenue or quantity
\* column becomes the median of the column's non-missing values, and each
\* missing cell of the product or region column becomes the column's mode, or
\* "Unknown" when the column has no non-missing value; none of them stays
\* missing.
C17_FillUsesMedianAndMode ==
    (/\ Len(calls) = 1
     /\ calls[1].op = "handle_missing_values" /\ calls[1].strategy = "fill"
     /\ ~raised) =>
        /\ Len(df_cleaned.rows) = Len(df.rows)
        /\ \A i \in 1..Len(df.rows) : \A c \in Fields :
               ~IsNull(df.rows[i][c]) => df_cleaned.rows[i][c] = df.rows[i][c]
        /\ \A c \in {"revenue", "quantity"} :
               Dtype(df, c) = "number" =>
                   \A i \in 1..Len(df.rows) :
                       IsNull(df.rows[i][c]) =>
                           /\ df_cleaned.rows[i][c] = Median(Column(df, c))
                           /\ ~IsNull(df_cleaned.rows[i][c])
        /\ \A c \in {"product", "region"} :
               \A i \in 1..Len(df.rows) :
                   IsNull(df.rows[i][c]) =>
                       df_cleaned.rows[i][c] = ModeFirst(Column(df, c), Str(Txt_Unknown))

-----------------------------------------------------------------------------
(* Claims about get_top_products and calculate_monthly_growth_rate         *)

\* the products of the analyzer's table
Products == GroupKeys(an_df, "product")

\* the summed revenue of the rows of one product
RECURSIVE ProductTotal(_, _)
ProductTotal(p, i) ==
    IF i > Len(an_df.rows) THEN 0
    ELSE (IF an_df.rows[i].product = p /\ an_df.rows[i].revenue.k = "num"
          THEN an_df.rows[i].revenue.n ELSE 0) + ProductTotal(p, i + 1)

\* C18: get_top_products(n), n >= 0, returns min(n, number of products) rows,
\* so at most n; each row is a distinct product of the table with its summed
\* revenue; the totals do not increase from top to bottom; and no product left
\* out has a larger total than one that is in.
C18_TopProductsAreTheLargest ==
    (an_call = "get_top_products" /\ ~an_raised) =>
        /\ Len(an_result) <= an_n
        /\ Len(an_result) = IF an_n < Cardinality(Products)
                            THEN an_n ELSE Cardinality(Products)
        /\ \A i \in 1..Len(an_result) :
               /\ an_result[i].key \in Products
               /\ an_result[i].total_revenue = ProductTotal(an_result[i].key, 1)
        /\ \A i, j \in 1..Len(an_result) :
               i # j => an_result[i].key # an_result[j].key
        /\ \A i \in 1..(Len(an_result) - 1) :
               an_result[i].total_revenue >= an_result[i + 1].total_revenue
        /\ \A p \in Products \ {an_result[i].key : i \in 1..Len(an_result)} :
               \A i \in 1..Len(an_result) :
                   an_result[i].total_revenue >= ProductTotal(p, 1)

\* of two products with different totals, get_top_products(1) returned one
C18_OneOfTwoProducts ==
    /\ an_call = "get_top_products" /\ ~an_raised /\ an_n = 1
    /\ Len(an_result) = 1
    /\ \E p \in Products : ProductTotal(p, 1) < an_result[1].total_revenue

\* the calendar month of a row's date as yyyymm, 0 when the date is missing
MonthOf(row) ==
    LET d == ToDatetime(row.date) IN IF d.k = "ts" THEN d.n \div 100 ELSE 0

\* the months in which the analyzer's table has a row
MonthsPresent == {MonthOf(an_df.rows[i]) : i \in 1..Len(an_df.rows)} \ {0}

\* the summed revenue of the rows of one month
RECURSIVE MonthTotal(_, _)
MonthTotal(m, i) ==
    IF i > Len(an_df.rows) THEN 0
    ELSE (IF MonthOf(an_df.rows[i]) = m /\ an_df.rows[i].revenue.k = "num"
          THEN an_df.rows[i].revenue.n ELSE 0) + MonthTotal(m, i + 1)

\* the month yyyymm a text yyyy-mm names
MonthNumber(text) == DigitsVal(SubSeq(text, 1, 4)) * 100 + DigitsVal(SubSeq(text, 6, 7))

\* C19: calculate_monthly_growth_rate returns one row per calendar month in
\* which the table has a row, in strictly increasing chronological order, with
\* revenue the sum of the month's rows; every row after the first whose
\* predecessor has non-zero revenue has growth_rate (curr - prev) / prev * 100;
\* and on the table of 100 in 2024-01 and 50 in 2024-02 the result is
\* (2024-01, 100, 0), (2024-02, 50, -50).
C19_MonthlyRowsAndGrowth ==
    (an_call = "calculate_monthly_growth_rate" /\ ~an_raised) =>
        /\ Len(an_result) = Cardinality(MonthsPresent)
        /\ \A i \in 1..Len(an_result) :
               /\ Len(an_result[i].month) = 7 /\ an_result[i].month[5] = "-"
               /\ MonthNumber(an_result[i].month) \in MonthsPresent
               /\ an_result[i].revenue = MonthTotal(MonthNumber(an_result[i].month), 1)
        /\ \A i \in 1..(Len(an_result) - 1) :
               MonthNumber(an_result[i].month) < MonthNumber(an_result[i + 1].month)
        /\ \A i \in 2..Len(an_result) :
               an_result[i - 1].revenue # 0 =>
                   /\ an_result[i].growth_rate.k = "num"
                   /\ an_result[i].growth_rate.num * an_result[i - 1].revenue =
                          an_result[i].growth_rate.den
                              * (an_result[i].revenue - an_result[i - 1].revenue) * 100
        /\ an_df = Table_TwoMonths =>
               an_result =
                   <<[month |-> <<"2", "0", "2", "4", "-", "0", "1">>, revenue |-> 100,
                      growth_rate |-> [k |-> "num", num |-> 0, den |-> 1]],
                     [month |-> <<"2", "0", "2", "4", "-", "0", "2">>, revenue |-> 50,
                      growth_rate |-> [k |-> "num", num |-> -50, den |-> 1]]>>

\* the table of two months was analysed and gave two rows, the second with a
\* growth rate against a non-zero month
C19_TwoMonthsAnalysed ==
    /\ an_call = "calculate_monthly_growth_rate" /\ ~an_raised
    /\ an_df = Table_TwoMonths
    /\ Len(an_result) = 2
    /\ an_result[1].revenue # 0
    /\ an_result[2].growth_rate.k = "num"

\* C20: the first row of calculate_monthly_growth_rate's table has growth_rate
\* 0, and when the table has rows and all of them are dated in one calendar
\* month the result has exactly one row.
C20_FirstRowHasZeroGrowth ==
    (an_call = "calculate_monthly_growth_rate" /\ ~an_raised) =>
        /\ Len(an_result) >= 1 => an_result[1].growth_rate = Zero
        /\ (/\ Len(an_df.rows) >= 1
            /\ \E m \in MonthsPresent :
                   \A i \in 1..Len(an_df.rows) : MonthOf(an_df.rows[i]) = m) =>
               Len(an_result) = 1

\* two rows of one month gave a single row with growth rate 0
C20_SingleMonthOfTwoRows ==
    /\ an_call = "calculate_monthly_growth_rate" /\ ~an_raised
    /\ Len(an_df.rows) = 2
    /\ MonthOf(an_df.rows[1]) # 0
    /\ MonthOf(an_df.rows[1]) = MonthOf(an_df.rows[2])
    /\ Len(an_result) = 1
    /\ an_result[1].growth_rate = Zero

-----------------------------------------------------------------------------
(* Claims about the mapping as a whole                                     *)

\* whether the column satisfies some rule of the field's loop
SatisfiesRule(col, field) ==
    CASE field = "date" -> HasDate(col)
      [] field = "product" -> HasProduct(col) \/ HasItemOrName(col)
      [] field = "region" -> HasRegion(col) \/ IsStateOrCountry(col)
      [] field = "revenue" -> HasSales(col) \/ IsRevenueWord(col)
      [] field = "quantity" ->
             \/ Contains(ColLower(col), kw_quantity)
             \/ ColLower(col) \in {kw_qty, kw_units}

\* C28: when some column of the list satisfies a rule of a canonical field, the
\* returned mapping has an entry whose value is that field; a later field's
\* loop never takes the entry of an earlier field away.
C28_MatchedFieldStaysMapped ==
    map_pc = "mapped" =>
        \A f \in {"date", "product", "region", "revenue", "quantity"} :
            (\E c \in Range(df_columns) : SatisfiesRule(c, f)) => MappedTo(f) # {}

\* C29: when the raw column names are pairwise distinct, so are the column
\* names of the renamed table.
C29_RenamedColumnsDistinct ==
    map_pc = "mapped" =>
        \A i, j \in 1..Len(mapped_columns) :
            i # j => mapped_columns[i] # mapped_columns[j]

RECURSIVE SumRevenue(_)
SumRevenue(s) == IF Len(s) = 0 THEN 0 ELSE s[1].revenue + SumRevenue(Tail(s))

\* C30: for a table that passed the schema check and was cleaned by clean_all
\* with strategy 'fill', the revenue column of calculate_monthly_growth_rate()
\* sums to calculate_total_revenue(): every cleaned row is in one month bucket.
C30_MonthlyRevenueSumsToTotal ==
    (clean_calls = 1 /\ missing_columns = <<>> /\ outcome # "raised") =>
        /\ ~calculate_monthly_growth_rate(cleaned_data).raised
        /\ SumRevenue(calculate_monthly_growth_rate(cleaned_data).value) =
               calculate_total_revenue(cleaned_data).value

-----------------------------------------------------------------------------
(* Claims about calculate_profit_margin and get_summary_statistics         *)

ProfitCalled == an_call = "calculate_profit_margin" /\ ~an_raised

\* no cost column was named, or the name is no column of the table
CostEstimated == an_cost_column = "none" \/ an_cost_column \notin an_df.cols

\* the rows of the analyzer's table that belong to a product
RowsOf(p) == {i \in 1..Len(an_df.rows) : an_df.rows[i].product = p}

\* the summed values of a column over the rows of a product
RECURSIVE ColumnTotal(_, _, _)
ColumnTotal(col, p, i) ==
    IF i > Len(an_df.rows) THEN 0
    ELSE (IF an_df.rows[i].product = p /\ an_df.rows[i][col].k = "num"
          THEN an_df.rows[i][col].n ELSE 0) + ColumnTotal(col, p, i + 1)

Forty == [k |-> "num", num |-> 40, den |-> 1]

RowCost(i) ==
    IF CostEstimated
    THEN (IF an_df.rows[i].revenue.k = "num"
          THEN Ratio(an_df.rows[i].revenue.n * 6, 10) ELSE RNaN)
    ELSE CellFloat(an_df.rows[i][an_cost_column])

\* profit / revenue * 100 of row i, for a row with non-zero revenue
RowMarginOf(i) ==
    LET c == RowCost(i)
        rev == an_df.rows[i].revenue.n
    IN  Ratio((rev * c.den - c.num) * 100, c.den * rev)

\* every row of the product has a number as cost and a non-zero revenue
AllMarginsFinite(p) ==
    \A i \in RowsOf(p) :
        /\ an_df.rows[i].revenue.k = "num" /\ an_df.rows[i].revenue.n # 0
        /\ RowCost(i).k = "num"

\* C22: in calculate_profit_margin's table each product occurs once; its
\* revenue, cost and profit are the sums over its rows; when every row of the
\* product has a margin, its profit_margin is the mean of the per-row margins
\* profit / revenue * 100; and profit does not increase from top to bottom.
C22_SumsAndMeanMargin ==
    ProfitCalled =>
        /\ {an_result[i].key : i \in 1..Len(an_result)} = Products
        /\ Len(an_result) = Cardinality(Products)
        /\ \A i \in 1..Len(an_result) :
               LET r == an_result[i]
                   rows == Filter([j \in 1..Len(an_df.rows) |-> j], RowsOf(r.key), 1)
                   costs == [j \in 1..Len(rows) |-> RowCost(rows[j])]
                   profits == [j \in 1..Len(rows) |->
                                  RSub(CellFloat(an_df.rows[rows[j]].revenue), costs[j])]
                   margins == [j \in 1..Len(rows) |-> RowMarginOf(rows[j])]
               IN  /\ r.revenue = Ratio(ProductTotal(r.key, 1), 1)
                   /\ r.cost = RSum(costs)
                   /\ r.profit = RSum(profits)
                   /\ AllMarginsFinite(r.key) =>
                          r.profit_margin =
                              Ratio(RSum(margins).num, RSum(margins).den * Len(rows))
        /\ \A i \in 1..(Len(an_result) - 1) :
               ~RLess(an_result[i].profit, an_result[i + 1].profit)

\* a product of two rows whose mean margin is not its summed profit over its
\* summed revenue
C22_MeanDiffersFromMarginOfSums ==
    /\ ProfitCalled
    /\ \E i \in 1..Len(an_result) :
           LET r == an_result[i]
           IN  /\ Cardinality(RowsOf(r.key)) = 2
               /\ AllMarginsFinite(r.key)
               /\ r.profit_margin.k = "num"
               /\ r.profit_margin.num * r.revenue.num * r.profit.den #
                      r.profit.num * 100 * r.profit_margin.den * r.revenue.den

\* the columns an aggregate reads
Reads(call) ==
    CASE call = "calculate_total_revenue" -> {"revenue"}
      [] call = "get_top_products" -> {"product", "revenue"}
      [] call = "get_region_wise_revenue" -> {"region", "revenue"}
      [] call = "calculate_monthly_growth_rate" -> {"date", "revenue"}
      [] call = "calculate_profit_margin" -> {"revenue", "product"}
      [] call = "get_summary_statistics" -> {"revenue", "product", "region", "date"}

\* C23: an aggregate called on a table that lacks a column it reads raises an
\* error and returns nothing.
C23_MissingColumnRaises ==
    (an_call # "none" /\ ~(Reads(an_call) \subseteq an_df.cols)) => an_raised

\* the distinct non-missing values of a column of the analyzer's table
Distinct(col) ==
    {an_df.rows[i][col] : i \in {j \in 1..Len(an_df.rows) : ~IsNull(an_df.rows[j][col])}}

\* C27: get_summary_statistics returns the number of rows, the total revenue
\* of calculate_total_revenue(), an average equal to the total divided by the
\* number of rows, the numbers of distinct products and regions, and the least
\* and greatest date as text, or None and None without a date column.
C27_SummaryStatistics ==
    (an_call = "get_summary_statistics" /\ ~an_raised) =>
        /\ an_result.total_transactions = Len(an_df.rows)
        /\ an_result.total_revenue = calculate_total_revenue(an_df).value
        /\ Len(an_df.rows) > 0 =>
               /\ an_result.average_revenue_per_transaction.k = "num"
               /\ an_result.average_revenue_per_transaction.num * Len(an_df.rows) =
                      an_result.total_revenue
                          * an_result.average_revenue_per_transaction.den
        /\ "product" \in an_df.cols =>
               an_result.unique_products = Cardinality(Distinct("product"))
        /\ "region" \in an_df.cols =>
               an_result.unique_regions = Cardinality(Distinct("region"))
        /\ "date" \notin an_df.cols =>
               an_result.date_range = [start |-> None, end |-> None]
        /\ "date" \in an_df.cols =>
               /\ an_result.date_range.start.k = "str"
               /\ an_result.date_range.end.k = "str"
               /\ \A d \in Distinct("date") :
                      /\ ~TextLess(DateText(d).s, an_result.date_range.start.s)
                      /\ ~TextLess(an_result.date_range.end.s, DateText(d).s)
               /\ Distinct("date") # {} =>
                      /\ an_result.date_range.start \in {DateText(d) : d \in Distinct("date")}
                      /\ an_result.date_range.end \in {DateText(d) : d \in Distinct("date")}

-----------------------------------------------------------------------------
(* Claims about DataCleaner.remove_outliers                                *)

\* remove_outliers(df, 'revenue', 'zscore') has returned
ZScoreCalled ==
    /\ clean_pc = "called"
    /\ calls # <<>>
    /\ calls[1].op = "remove_outliers"
    /\ calls[1].column = "revenue"
    /\ calls[1].method = "zscore"

\* the amounts of the input column that are not missing
Amounts == NumbersOf(Column(df, "revenue"))

\* n times the sum of the squared deviations from the mean:
\* n SUM x^2 - (SUM x)^2
SpreadOf(v) ==
    Len(v) * SumInts([i \in 1..Len(v) |-> v[i] * v[i]]) - SumInts(v) * SumInts(v)

\* row i of the input has an absolute z-score below 3: z^2 < 9 with
\* z = (x - mean) / std and std^2 = SUM (x - mean)^2 / (n - 1); a missing
\* amount, or a deviation that is zero or undefined, gives no such z-score
AbsZBelow3(i) ==
    LET c == df.rows[i].revenue
        n == Len(Amounts)
        S == SumInts(Amounts)
    IN  /\ c.k = "num"
        /\ n >= 2
        /\ SpreadOf(Amounts) > 0
        /\ (n * c.n - S) * (n * c.n - S) * (n - 1) < 9 * n * SpreadOf(Amounts)

RowsBelow3 ==
    [df EXCEPT !.rows = Filter(df.rows, {i \in 1..Len(df.rows) : AbsZBelow3(i)}, 1)]

\* C24 as stated: method 'zscore' returns the input rows unchanged, without
\* error, when the column's standard deviation is zero, and otherwise
\* exactly the rows whose absolute z-score is below 3.
C24_ZScoreAsClaimed ==
    ZScoreCalled =>
        /\ ~raised
        /\ IF Len(Amounts) >= 2 /\ SpreadOf(Amounts) = 0
           THEN df_cleaned = df
           ELSE df_cleaned = RowsBelow3

\* C24, amended: method 'zscore' on a column of numbers returns the input
\* rows unchanged, without error, when the column's sample standard
\* deviation is zero or undefined (fewer than two amounts that are not
\* missing), and otherwise exactly the rows whose absolute z-score is below 3.
C24_ZScoreSkipsDegenerate ==
    ZScoreCalled =>
        /\ ~raised
        /\ IF Len(Amounts) < 2 \/ SpreadOf(Amounts) = 0
           THEN df_cleaned = df
           ELSE df_cleaned = RowsBelow3

\* an amount far from eleven equal ones was removed, the equal ones kept
C24_OutlierRemoved ==
    /\ ZScoreCalled
    /\ Len(Amounts) = Len(df.rows)
    /\ SpreadOf(Amounts) > 0
    /\ Len(df_cleaned.rows) = Len(df.rows) - 1

\* a table whose amounts are all equal came back unchanged
C24_ZeroDeviationUnchanged ==
    /\ ZScoreCalled
    /\ Len(Amounts) >= 2
    /\ SpreadOf(Amounts) = 0
    /\ df_cleaned = df

-----------------------------------------------------------------------------
(* Claims about DataCleaner.clean_all                                      *)

\* clean_all(df, strategy) has returned
CleanAllCalled ==
    /\ clean_pc = "called"
    /\ calls # <<>>
    /\ calls[1].op = "clean_all"

\* C25: clean_all makes exactly three calls, remove_duplicates, then
\* fix_data_types, then handle_missing_values with the given strategy; the
\* first is given the caller's table, each later one the table the call
\* before it returned, and clean_all returns what the last one returned;
\* remove_outliers is not among the calls.
C25_CleanAllStepOrder ==
    CleanAllCalled =>
        /\ [i \in 1..Len(steps) |-> steps[i].op] =
               <<"remove_duplicates", "fix_data_types", "handle_missing_values">>
        /\ steps[3].strategy = calls[1].strategy
        /\ steps[1].arg = df
        /\ steps[1].out = remove_duplicates(steps[1].arg)
        /\ steps[2].arg = steps[1].out
        /\ steps[2].out = fix_data_types(steps[2].arg)
        /\ steps[3].arg = steps[2].out
        /\ steps[3].out = handle_missing_values(steps[3].arg, steps[3].strategy).df
        /\ df_cleaned = steps[3].out
        /\ \A i \in 1..Len(steps) : steps[i].op # "remove_outliers"

\* every one of the three steps changed the table it was given
C25_EveryStepChangedTheTable ==
    /\ CleanAllCalled
    /\ Len(steps) = 3
    /\ \A i \in 1..3 : steps[i].out # steps[i].arg

-----------------------------------------------------------------------------
(* Tables as objects.  The session of a caller holds its DataFrames in a   *)
(* heap, and a reference is a position of the heap.  df.copy() makes a new *)
(* object; an assignment df[col] = ... and a call with inplace=True write  *)
(* the object they are made on; every other pandas call returns a new      *)
(* object and leaves its argument alone.  Each operation returns           *)
(* [heap, ref, raised]: the heap after it and the object it returned.      *)

\* df.copy() handing back the object itself
Copy_Alias(h, o) == [heap |-> h, ref |-> o, raised |-> FALSE]

\* df.copy(): a new object with the content of o
Copy(h, o) == [heap |-> Append(h, h[o]), ref |-> Len(h) + 1, raised |-> FALSE]

\* the new object a pandas call returns
New(h, t) == [heap |-> Append(h, t), ref |-> Len(h) + 1, raised |-> FALSE]

\* object o written in place
Write(h, o, t) == [heap |-> [h EXCEPT ![o] = t], ref |-> o, raised |-> FALSE]

\* remove_duplicates: df.drop_duplicates() is a new object
ObjRemoveDuplicates(h, o) == New(h, DropDuplicates(h[o]))

\* fix_data_types: the columns are assigned on the copy
ObjFixDataTypes(h, o) ==
    LET copied == Copy(h, o)
    IN  Write(copied.heap, copied.ref,
              fix_data_types(copied.heap[copied.ref]))

\* handle_missing_values: df itself when nothing is missing; dropna() is a
\* new object, fillna and interpolate write the copy
ObjHandleMissingValues(h, o, strategy) ==
    IF MissingCount(h[o]) = 0 THEN [heap |-> h, ref |-> o, raised |-> FALSE]
    ELSE LET copied == Copy(h, o)
             content == copied.heap[copied.ref]
         IN  IF strategy = "drop" THEN New(copied.heap, DropNa(content))
             ELSE Write(copied.heap, copied.ref,
                        handle_missing_values(content, strategy).df)

\* remove_outliers: df itself when the column is absent; a selection of
\* rows is a new object; without a selection the copy is returned
ObjRemoveOutliers(h, o, column, method) ==
    IF column \notin h[o].cols THEN [heap |-> h, ref |-> o, raised |-> FALSE]
    ELSE LET copied == Copy(h, o)
             content == copied.heap[copied.ref]
             r == remove_outliers(content, column, method)
             selects == \/ method = "iqr"
                        \/ /\ method = "zscore"
                           /\ StdPositive(NumbersOf(Column(content, column)))
         IN  IF r.raised THEN [copied EXCEPT !.raised = TRUE]
             ELSE IF selects THEN New(copied.heap, r.df)
             ELSE copied

\* clean_all: the copy, then the three steps, each on the object before it
ObjCleanAll(h, o, strategy) ==
    LET copied == Copy(h, o)
        d1 == ObjRemoveDuplicates(copied.heap, copied.ref)
        d2 == ObjFixDataTypes(d1.heap, d1.ref)
    IN  ObjHandleMissingValues(d2.heap, d2.ref, strategy)

\* the aggregates with their arguments
AggregateCalls ==
    {[call |-> c, n |-> 0, cost_column |-> "none"] :
        c \in {"calculate_total_revenue", "get_region_wise_revenue",
               "calculate_monthly_growth_rate", "get_summary_statistics"}}
    \cup {[call |-> "get_top_products", n |-> n, cost_column |-> "none"] :
             n \in 1..MaxTopN}
    \cup {[call |-> "calculate_profit_margin", n |-> 0, cost_column |-> c] :
             c \in {"none", "quantity"}}

\* what the aggregate a returns on the table t: [raised, value]
Aggregate(t, a) ==
    IF a.call = "calculate_total_revenue" THEN calculate_total_revenue(t)
    ELSE IF a.call = "get_top_products" THEN get_top_products(t, a.n)
    ELSE IF a.call = "get_region_wise_revenue" THEN get_region_wise_revenue(t)
    ELSE IF a.call = "calculate_monthly_growth_rate"
         THEN calculate_monthly_growth_rate(t)
    ELSE IF a.call = "calculate_profit_margin"
         THEN calculate_profit_margin(t, a.cost_column)
    ELSE get_summary_statistics(t)

\* the table with further column names (the cells are never read)
WithColumns(t, names) == [t EXCEPT !.cols = @ \cup names]

\* an aggregate called on the analyzer whose self.df is object o: the heap
\* once its temporary objects are released, and the result.  The monthly
\* rate and the profit margin assign columns on df_temp = self.df.copy();
\* the others only read self.df.
ObjAggregate(h, o, a) ==
    LET result == Aggregate(h[o], a)
        df_temp == Copy(h, o)
        content == df_temp.heap[df_temp.ref]
        after ==
            IF result.raised THEN h
            ELSE IF a.call = "calculate_monthly_growth_rate"
                 THEN Write(df_temp.heap, df_temp.ref,
                            WithColumns(content, {"year_month"})).heap
            ELSE IF a.call = "calculate_profit_margin"
                 THEN Write(df_temp.heap, df_temp.ref,
                            WithColumns(content, {"cost", "profit", "profit_margin"})).heap
            ELSE h
    IN  [heap |-> SubSeq(after, 1, Len(h)), result |-> result]

\* the heap h0 after an operation that returned r: the objects of h0, and
\* the returned object when it is a new one
Keep(h0, r) ==
    IF r.raised THEN [heap |-> SubSeq(r.heap, 1, Len(h0)), ref |-> 0]
    ELSE IF r.ref <= Len(h0) THEN [heap |-> SubSeq(r.heap, 1, Len(h0)), ref |-> r.ref]
    ELSE [heap |-> Append(SubSeq(r.heap, 1, Len(h0)), r.heap[r.ref]),
          ref |-> Len(h0) + 1]

-----------------------------------------------------------------------------
(* A session: the caller cleans its table once, builds one analyzer on its *)
(* table or on the cleaned one, calls aggregates, and edits its tables.    *)

SessionRows ==
    [date : {Str(Txt_Jan05), Str(Txt_bad)},
     product : {Str(Txt_Widget)},
     region : {Str(Txt_East)},
     revenue : {Num(60), Num(120), NaN},
     quantity : {Num(2)}]

\* most rows of the caller's table
MaxSessionRows == 2

SessionTables ==
    {[cols |-> Fields, rows |-> r] : r \in SeqsUpTo(SessionRows, MaxSessionRows)}

\* most edits the caller makes
MaxEdits == 1

NoTable == [cols |-> {}, rows |-> <<>>]

NoCall == [call |-> "none", n |-> 0, cost_column |-> "none"]

SessInit ==
    /\ heap \in {<<t>> : t \in SessionTables}
    /\ refs = [df |-> 1, cleaned |-> 0, analyzer |-> 0]
    /\ expected = [df |-> heap[1], cleaned |-> NoTable, analyzer |-> NoTable]
    /\ baseline = <<>>
    /\ sess_result = [call |-> NoCall, result |-> [raised |-> FALSE, value |-> <<>>]]
    /\ edits = 0
    /\ MapIdle /\ CleanIdle /\ AnIdle /\ PipeIdle

\* a cleaner operation on the caller's df returned r
Cleaned(r) ==
    LET k == Keep(heap, r)
    IN  /\ heap' = k.heap
        /\ refs' = [refs EXCEPT !.cleaned = k.ref]
        /\ expected' = [expected EXCEPT
                            !.cleaned = IF k.ref = 0 THEN NoTable ELSE k.heap[k.ref]]
        /\ UNCHANGED <<baseline, sess_result, edits, notSess>>

SessionRemoveDuplicates ==
    /\ refs.cleaned = 0
    /\ Cleaned(ObjRemoveDuplicates(heap, refs.df))

SessionFixDataTypes ==
    /\ refs.cleaned = 0
    /\ Cleaned(ObjFixDataTypes(heap, refs.df))

SessionHandleMissingValues ==
    /\ refs.cleaned = 0
    /\ \E strategy \in Strategies :
        Cleaned(ObjHandleMissingValues(heap, refs.df, strategy))

SessionRemoveOutliers ==
    /\ refs.cleaned = 0
    /\ \E column \in OutlierColumns \cup {"cost"}, method \in Methods :
        Cleaned(ObjRemoveOutliers(heap, refs.df, column, method))

SessionCleanAll ==
    /\ refs.cleaned = 0
    /\ \E strategy \in Strategies : Cleaned(ObjCleanAll(heap, refs.df, strategy))

\* the date column holds timestamps and the amount columns numbers
Typed(t) ==
    /\ \A i \in 1..Len(t.rows) : t.rows[i].date.k \in {"ts", "nat"}
    /\ \A i \in 1..Len(t.rows) : t.rows[i].revenue.k \in {"num", "nan"}
    /\ \A i \in 1..Len(t.rows) : t.rows[i].quantity.k \in {"num", "nan"}

\* DataAnalyzer(df) on the caller's table or the cleaned one, once its types
\* are fixed: self.df = df.copy()
Construct ==
    /\ refs.analyzer = 0
    /\ \E o \in {refs.df, refs.cleaned} \ {0} :
        /\ Typed(heap[o])
        /\ LET c == Copy(heap, o)
           IN  /\ heap' = c.heap
               /\ refs' = [refs EXCEPT !.analyzer = c.ref]
               /\ expected' = [expected EXCEPT !.analyzer = c.heap[c.ref]]
               /\ baseline' = [a \in AggregateCalls |-> Aggregate(c.heap[c.ref], a)]
    /\ UNCHANGED <<sess_result, edits, notSess>>

\* one aggregate of the analyzer is called
CallAggregate ==
    /\ refs.analyzer # 0
    /\ \E a \in AggregateCalls :
        LET r == ObjAggregate(heap, refs.analyzer, a)
        IN  /\ heap' = r.heap
            /\ sess_result' = [call |-> a, result |-> r.result]
    /\ UNCHANGED <<refs, expected, baseline, edits, notSess>>

\* the edits of the caller: df['revenue'] = 0 and dropping the first row in
\* place
EditKinds == {"zero_revenue", "drop_first"}

Edited(t, kind) ==
    IF kind = "zero_revenue"
    THEN SetColumn(t, "revenue", [i \in 1..Len(t.rows) |-> Num(0)])
    ELSE [t EXCEPT !.rows = IF Len(@) = 0 THEN @ ELSE Tail(@)]

\* the caller edits, in place, its table or the table the cleaner returned
CallerModifies ==
    /\ edits < MaxEdits
    /\ \E o \in {refs.df, refs.cleaned} \ {0}, kind \in EditKinds :
        LET t == Edited(heap[o], kind)
        IN  /\ heap' = Write(heap, o, t).heap
            /\ expected' = [f \in {"df", "cleaned", "analyzer"} |->
                               IF f # "analyzer" /\ refs[f] = o THEN t
                               ELSE expected[f]]
    /\ edits' = edits + 1
    /\ UNCHANGED <<refs, baseline, sess_result, notSess>>

SessNext ==
    \/ SessionRemoveDuplicates
    \/ SessionFixDataTypes
    \/ SessionHandleMissingValues
    \/ SessionRemoveOutliers
    \/ SessionCleanAll
    \/ Construct
    \/ CallAggregate
    \/ CallerModifies

SpecSession == SessInit /\ [][SessNext]_vars

-----------------------------------------------------------------------------
(* Claims about the tables of the caller and of the analyzer               *)

\* C26: no DataCleaner operation and no DataAnalyzer operation changes a
\* table of the caller (its df and the table the cleaner returned hold what
\* the caller last put there), and the analyzer's table is a snapshot: it
\* holds what it held at construction, every aggregate would return what it
\* returned right after construction, and the aggregate called last did so,
\* whatever analyzer calls and caller edits came between.
C26_CallerTablesKeptAndSnapshotHeld ==
    /\ refs.df # 0 => heap[refs.df] = expected.df
    /\ refs.cleaned # 0 => heap[refs.cleaned] = expected.cleaned
    /\ refs.analyzer # 0 =>
           /\ heap[refs.analyzer] = expected.analyzer
           /\ [a \in AggregateCalls |-> Aggregate(heap[refs.analyzer], a)] = baseline
           /\ sess_result.call # NoCall =>
                  sess_result.result = baseline[sess_result.call]

\* the cleaner changed the table, an analyzer was built on the result, the
\* caller then edited that table, and an aggregate called afterwards returned
\* something else than it would on the edited table
C26_AggregateAfterCallerEdit ==
    /\ refs.cleaned # 0
    /\ refs.analyzer # 0
    /\ edits > 0
    /\ expected.cleaned # expected.df
    /\ heap[refs.cleaned] # heap[refs.analyzer]
    /\ sess_result.call # NoCall
    /\ ~sess_result.result.raised
    /\ sess_result.result # Aggregate(heap[refs.cleaned], sess_result.call)

====
